---------------------------- MODULE Spec2Model ----------------------------
(***************************************************************************)
(* Model of the ClickUp <-> Obsidian synchroniser (thinoo-v2/clickup-sync). *)
(*                                                                         *)
(* Strings of the program (paths, doc ids, page ids, page names, mapping   *)
(* keys) are sequences of one-character strings, so that prefix tests,     *)
(* substring, split and concatenation are computed, not assumed.           *)
(***************************************************************************)
EXTENDS Integers, Sequences, FiniteSets, TLC

(***************************************************************************)
(* Bounds of the model                                                     *)
(***************************************************************************)
\* the number of disturbances of a run: injected failures (transport
\* exception, error status, read error, failed fetch) plus changes from
\* outside (file edit, remote deletion, crash)
MaxDisturbances == 2

(***************************************************************************)
(* String helpers (JavaScript String methods)                              *)
(***************************************************************************)
\* null, undefined and '' of a string-or-null value: the source tests such
\* values for truthiness only, so the three are one value here.
NULL == <<>>

\* JavaScript truthiness of a string-or-null value
Truthy(x) == x # NULL

\* An object-or-null result (a page, a target) is a sequence of at most one
\* element: <<>> is null/undefined, <<x>> is the object x.
NONE == <<>>

StartsWith(s, p) == Len(p) <= Len(s) /\ SubSeq(s, 1, Len(p)) = p

EndsWith(s, p) == Len(p) <= Len(s) /\ SubSeq(s, Len(s) - Len(p) + 1, Len(s)) = p

\* s.substring(n) with 0-based n
Substring(s, n) == IF n >= Len(s) THEN <<>> ELSE SubSeq(s, n + 1, Len(s))

\* index (1-based) of the first occurrence of sep in s at or after i, 0 if none
RECURSIVE IndexFrom(_, _, _)
IndexFrom(s, sep, i) ==
    IF i + Len(sep) - 1 > Len(s) THEN 0
    ELSE IF SubSeq(s, i, i + Len(sep) - 1) = sep THEN i
    ELSE IndexFrom(s, sep, i + 1)

\* s.split(sep) for a non-empty separator
RECURSIVE Split(_, _)
Split(s, sep) ==
    LET i == IndexFrom(s, sep, 1) IN
    IF i = 0 THEN <<s>>
    ELSE <<SubSeq(s, 1, i - 1)>> \o Split(Substring(s, i - 1 + Len(sep)), sep)

\* s.replace(/^\/+/, '')
RECURSIVE StripLeadingSlashes(_)
StripLeadingSlashes(s) ==
    IF s # <<>> /\ Head(s) = "/" THEN StripLeadingSlashes(Tail(s)) ELSE s

Min(S) == CHOOSE x \in S : \A y \in S : x <= y

\* pages.find(page => page.name === name): the first page of that name,
\* NONE (undefined) if there is none
FindByName(pages, name) ==
    LET idx == {i \in 1..Len(pages) : pages[i].name = name} IN
    IF idx = {} THEN NONE ELSE <<pages[Min(idx)]>>

SeqToSet(seq) == {seq[i] : i \in 1..Len(seq)}

(***************************************************************************)
(* Identity mapping keys                                                   *)
(***************************************************************************)
SEP == <<":", ":", ":">>

\* `${docId}:::${file.path}`
mappingKey(docId, path) == docId \o SEP \o path

\* pageMapping[key] || null
Lookup(m, key) == IF key \in DOMAIN m /\ Truthy(m[key]) THEN m[key] ELSE NULL

\* settings.pageMapping[key] = id
MapSet(m, key, id) == [k \in DOMAIN m \cup {key} |-> IF k = key THEN id ELSE m[k]]

EmptyMap == [k \in {} |-> NULL]

\* (mutant) the whole mapping is dropped
MapDeleteEveryKey(m, key) == [k \in {} |-> NULL]

\* delete settings.pageMapping[key]
MapDelete(m, key) == [k \in DOMAIN m \ {key} |-> m[k]]


(***************************************************************************)
(* Remote Tree Builder (getClickUpDocPagesTree) and name locator           *)
(***************************************************************************)
\* A fetched page is [id, name, parent_id, content]; a tree is
\* [roots |-> sequence of node ids, node |-> id :> ClickUpPageNode], a node
\* being the page with parent_id normalised and children as a sequence of
\* node ids (object references of the source).

\* First pass, mutant: a key set again moves to the end of the Map
RECURSIVE PageMapOrderByLastSet(_)
PageMapOrderByLastSet(pages) ==
    IF pages = <<>> THEN <<>>
    ELSE LET rest == PageMapOrderByLastSet(Tail(pages)) IN
         IF Head(pages).id \in SeqToSet(rest) THEN rest ELSE <<Head(pages).id>> \o rest

\* First pass: pageMap.set(page.id, pageNode) for every page in list order.
\* A Map keeps the position of the first insertion of a key and the value of
\* the last one.
RECURSIVE PageMapOrder(_)
PageMapOrder(pages) ==
    IF pages = <<>> THEN <<>>
    ELSE LET init == PageMapOrder(SubSeq(pages, 1, Len(pages) - 1))
             id   == pages[Len(pages)].id IN
         IF id \in SeqToSet(init) THEN init ELSE Append(init, id)

PageMapNode(pages, id) ==
    LET last == CHOOSE i \in 1..Len(pages) :
                   /\ pages[i].id = id
                   /\ \A j \in (i + 1)..Len(pages) : pages[j].id # id
        page == pages[last] IN
    [id        |-> page.id,
     name      |-> page.name,
     content   |-> page.content,
     parent_id |-> IF Truthy(page.parent_id) THEN page.parent_id ELSE NULL]

\* page.parent_id && pageMap.has(page.parent_id)
HasParentInMap(pages, id) ==
    LET p == PageMapNode(pages, id).parent_id IN
    Truthy(p) /\ p \in SeqToSet(PageMapOrder(pages))

\* Second pass, mutant: the else branch is lost and every node is pushed to
\* rootNodes
RECURSIVE SecondPassAlwaysRoot(_, _)
SecondPassAlwaysRoot(pages, n) ==
    IF n = 0
    THEN [roots |-> <<>>, children |-> [i \in SeqToSet(PageMapOrder(pages)) |-> <<>>]]
    ELSE LET acc == SecondPassAlwaysRoot(pages, n - 1)
             id  == PageMapOrder(pages)[n]
             par == PageMapNode(pages, id).parent_id IN
         IF HasParentInMap(pages, id)
         THEN [acc EXCEPT !.children[par] = Append(@, id), !.roots = Append(@, id)]
         ELSE [acc EXCEPT !.roots = Append(@, id)]

\* Second pass over the first n entries of pageMap: the accumulated
\* [roots, children] after pageMap.forEach has visited them.
RECURSIVE SecondPass(_, _)
SecondPass(pages, n) ==
    IF n = 0
    THEN [roots |-> <<>>, children |-> [i \in SeqToSet(PageMapOrder(pages)) |-> <<>>]]
    ELSE LET acc == SecondPass(pages, n - 1)
             id  == PageMapOrder(pages)[n]
             par == PageMapNode(pages, id).parent_id IN
         IF HasParentInMap(pages, id)
         THEN [acc EXCEPT !.children[par] = Append(@, id)]
         ELSE [acc EXCEPT !.roots = Append(@, id)]

BuildTree(pages) ==
    LET acc == SecondPass(pages, Len(PageMapOrder(pages))) IN
    [roots    |-> acc.roots,
     node     |-> [i \in SeqToSet(PageMapOrder(pages)) |-> PageMapNode(pages, i)],
     children |-> acc.children]

\* findPageByNameInTree, mutant: the following siblings are searched before
\* the children of a node
RECURSIVE findPageByNameInTreeSiblingsFirst(_, _, _)
findPageByNameInTreeSiblingsFirst(name, ids, t) ==
    IF ids = <<>> THEN NONE
    ELSE LET page == t.node[Head(ids)] IN
         IF page.name = name THEN <<page>>
         ELSE LET foundInSiblings ==
                      findPageByNameInTreeSiblingsFirst(name, Tail(ids), t) IN
              IF foundInSiblings # NONE THEN foundInSiblings
              ELSE IF t.children[page.id] # <<>>
                   THEN findPageByNameInTreeSiblingsFirst(name, t.children[page.id], t)
                   ELSE NONE

\* findPageByNameInTree(name, pages): depth-first pre-order over the node ids
\* `ids` of tree `t`.  Nodes reachable from a root never lie on a parent
\* cycle, so the recursion ends.
RECURSIVE findPageByNameInTree(_, _, _)
findPageByNameInTree(name, ids, t) ==
    IF ids = <<>> THEN NONE
    ELSE LET page == t.node[Head(ids)] IN
         IF page.name = name THEN <<page>>
         ELSE LET foundInChildren ==
                      IF t.children[page.id] # <<>>
                      THEN findPageByNameInTree(name, t.children[page.id], t)
                      ELSE NONE IN
              IF foundInChildren # NONE THEN foundInChildren
              ELSE findPageByNameInTree(name, Tail(ids), t)

(***************************************************************************)
(* The vault, the settings and the remote docs of the model                *)
(***************************************************************************)
DocD == <<"d">>
DocE == <<"e">>
Docs == {DocD, DocE}

\* TFile objects of the vault (path, basename) with their content
FileA  == [path |-> <<"a", ".", "m", "d">>, basename |-> <<"a">>, content |-> <<"x">>]
FileNA == [path |-> <<"n", "/", "a", ".", "m", "d">>, basename |-> <<"a">>,
           content |-> <<"y">>]
InitVault == <<FileA, FileNA>>

SyncTarget(docId, folderPath, parentPageId) ==
    [docId |-> docId, folderPath |-> folderPath, parentPageId |-> parentPageId]

\* The settings the runs start from: credentials present or not, syncOnSave,
\* and the list of sync targets.
SettingsChoices ==
    { [configured |-> TRUE, syncOnSave |-> TRUE,
       syncTargets |-> <<SyncTarget(DocD, <<>>, NULL)>>],
      [configured |-> TRUE, syncOnSave |-> TRUE,
       syncTargets |-> <<SyncTarget(DocD, <<"n">>, NULL), SyncTarget(DocE, <<>>, NULL)>>],
      [configured |-> TRUE, syncOnSave |-> FALSE,
       syncTargets |-> <<SyncTarget(<<>>, <<>>, NULL),
                         SyncTarget(DocD, <<"n", "/">>, <<"p", "0">>)>>] }

Page(id, name, parent_id, content) ==
    [id |-> id, name |-> name, parent_id |-> parent_id, content |-> content]

\* The remote docs the runs start from: doc d holds a page "n" with a child
\* page "a", both made by hand in ClickUp; doc e is empty.
InitRemote ==
    [d \in Docs |-> IF d = DocD
                    THEN <<Page(<<"p", "n">>, <<"n">>, NULL, <<>>),
                           Page(<<"p", "9">>, <<"a">>, <<"p", "n">>, <<"o">>)>>
                    ELSE <<>>]

\* the id the remote service gives to the n-th page it creates
NewPageId(n) == <<"c", ToString(n)>>

(***************************************************************************)
(* State                                                                   *)
(***************************************************************************)
VARIABLES
    settings,     \* clickUpApiKey/WorkspaceId present, syncOnSave, syncTargets
    pageMapping,  \* settings.pageMapping in memory
    saved,        \* pageMapping as last written by saveSettings (data.json)
    vault,        \* the markdown files and their content
    remote,       \* the pages of each remote doc, in the order GET returns them
    nextId,       \* number of pages the remote service has created, plus one
    pc,           \* where the running operation is suspended
    loc,          \* local variables of the running operation
    requests,     \* PUT and POST requests issued by the running/last operation
    cleanPass,    \* <<page ids of the docs at the end of the last pass>> when it ended
                  \* with no failure and nothing changed from outside since it
                  \* started, else <<>>
    faults,       \* failures injected so far (transport, 5xx, read error)
    events        \* changes from outside so far (edit, remote deletion, crash)

vars == <<settings, pageMapping, saved, vault, remote, nextId, pc, loc, requests,
          cleanPass, faults, events>>

EmptyTree == BuildTree(<<>>)
NoFetch   == [ok |-> FALSE, pages |-> <<>>]
NoTree    == [ok |-> FALSE, t |-> EmptyTree]
NoFile    == [path |-> <<>>, basename |-> <<>>, content |-> <<>>]
NoTarget  == SyncTarget(NULL, <<>>, NULL)

LocInit ==
    [op |-> "none", ti |-> 0, fi |-> 0, allMdFiles |-> <<>>, files |-> <<>>,
     tree |-> NoTree, flat |-> NoFetch,
     totalSuccessCount |-> 0, totalErrorCount |-> 0,
     targetSuccessCount |-> 0, targetErrorCount |-> 0,
     file |-> NoFile, target |-> NoTarget,
     mappingKey |-> <<>>, targetPageId |-> NULL, via |-> "none",
     responseJsonId |-> NULL, success |-> FALSE,
     putStatus |-> -1, postStatus |-> -1, postHadId |-> FALSE,
     puts |-> 0, posts |-> 0, undisturbed |-> TRUE, putFaults |-> 0,
     attempted |-> {}, fetchFailed |-> {}, uploads |-> <<>>, other |-> <<>>]

Init ==
    /\ settings \in SettingsChoices
    /\ pageMapping = EmptyMap
    /\ saved = EmptyMap
    /\ vault = InitVault
    /\ remote = InitRemote
    /\ nextId = 1
    /\ pc = "idle"
    /\ loc = LocInit
    /\ requests = <<>>
    /\ cleanPass = <<>>
    /\ faults = 0
    /\ events = 0

(***************************************************************************)
(* Folder filter and parent inference (syncVaultToClickupDoc)              *)
(***************************************************************************)
\* folderPath === '' || folderPath.endsWith('/') ? folderPath : folderPath + '/'
NormalizedPath(folderPath) ==
    IF folderPath = <<>> \/ EndsWith(folderPath, <<"/">>)
    THEN folderPath ELSE folderPath \o <<"/">>

FileMatchesTarget(file, folderPath) ==
    \/ NormalizedPath(folderPath) = <<>>
    \/ StartsWith(file.path, NormalizedPath(folderPath))

\* allMdFiles.filter(...)
FilesToSyncForTarget(allMdFiles, folderPath) ==
    SelectSeq(allMdFiles, LAMBDA f : FileMatchesTarget(f, folderPath))

\* folderPath ? file.path.substring(folderPath.length).replace(/^\/+/, '') : file.path
RelativePath(file, folderPath) ==
    IF Truthy(folderPath)
    THEN StripLeadingSlashes(Substring(file.path, Len(folderPath)))
    ELSE file.path

\* the page used for one folder name: flat list first, then the tree search
FolderPage(folderName, flat, tree) ==
    LET inFlat == FindByName(flat, folderName) IN
    IF inFlat # NONE THEN inFlat
    ELSE IF tree.ok THEN findPageByNameInTree(folderName, tree.t.roots, tree.t)
    ELSE NONE

\* the for loop over pathParts[0 .. length-2], from segment i (1-based)
RECURSIVE WalkFolders(_, _, _, _, _)
WalkFolders(pathParts, i, currentParentId, flat, tree) ==
    IF i > Len(pathParts) - 1 THEN currentParentId
    ELSE LET folderPage == FolderPage(pathParts[i], flat, tree) IN
         WalkFolders(pathParts, i + 1,
                     IF folderPage # NONE THEN folderPage[1].id ELSE currentParentId,
                     flat, tree)

\* parentId as computed in the file loop of syncVaultToClickupDoc
ResolveParent(file, target, flat, tree) ==
    LET pathParts == Split(RelativePath(file, target.folderPath), <<"/">>) IN
    IF Len(pathParts) > 1
    THEN WalkFolders(pathParts, 1, target.parentPageId, flat, tree)
    ELSE target.parentPageId

(***************************************************************************)
(* The remote service                                                      *)
(***************************************************************************)
PageExists(docId, pageId) ==
    docId \in DOMAIN remote /\ \E i \in 1..Len(remote[docId]) : remote[docId][i].id = pageId

\* the ids of the pages of every doc, in list order
PageIds(r) == [d \in DOMAIN r |-> [i \in 1..Len(r[d]) |-> r[d][i].id]]

\* effect of an accepted PUT .../pages/{pageId}
RemoteUpdate(docId, pageId, name, content) ==
    [remote EXCEPT ![docId] =
        [i \in 1..Len(@) |-> IF @[i].id = pageId
                             THEN [@[i] EXCEPT !.name = name, !.content = content]
                             ELSE @[i]]]

\* effect of an accepted POST .../pages
RemoteCreate(docId, name, content, parent) ==
    [remote EXCEPT ![docId] = Append(@, Page(NewPageId(nextId), name, parent, content))]

\* Answers to a PUT.  status 0 stands for requestUrl throwing (no HTTP
\* status); jsonId is the id field of a JSON body, NULL when the body is
\* empty, not JSON or has no id.
PutAnswers(exists, pageId) ==
    IF exists
    THEN { [status |-> 200, jsonId |-> pageId, applied |-> TRUE,  fault |-> FALSE],
           [status |-> 204, jsonId |-> NULL,   applied |-> TRUE,  fault |-> FALSE],
           [status |-> 500, jsonId |-> NULL,   applied |-> FALSE, fault |-> TRUE],
           [status |-> 429, jsonId |-> pageId, applied |-> FALSE, fault |-> TRUE],
           [status |-> 0,   jsonId |-> NULL,   applied |-> FALSE, fault |-> TRUE] }
    ELSE { [status |-> 404, jsonId |-> NULL,   applied |-> FALSE, fault |-> FALSE],
           [status |-> 0,   jsonId |-> NULL,   applied |-> FALSE, fault |-> TRUE] }

\* Answers to a POST: created with the new id in the body (200 or 201),
\* created but with an empty body, refused, or a transport failure.
PostAnswers ==
    { [status |-> 201, hasId |-> TRUE,  applied |-> TRUE,  fault |-> FALSE],
      [status |-> 200, hasId |-> TRUE,  applied |-> TRUE,  fault |-> FALSE],
      [status |-> 201, hasId |-> FALSE, applied |-> TRUE,  fault |-> TRUE],
      [status |-> 500, hasId |-> FALSE, applied |-> FALSE, fault |-> TRUE],
      [status |-> 0,   hasId |-> FALSE, applied |-> FALSE, fault |-> TRUE] }

MayFail(a) == a.fault => faults + events < MaxDisturbances
Charge(a)  == IF a.fault THEN faults + 1 ELSE faults

(***************************************************************************)
(* Upload Reconciler: syncFileToClickupPage                                *)
(***************************************************************************)
\* (mutant) only 200 counts as a successful update
UpdateSucceededOnly200(status) == status = 200

\* response.status === 200 || response.status === 204
UpdateSucceeded(status) == status = 200 \/ status = 204

\* (mutant) only 201 counts as a successful create
CreateSucceededOnly201(status, responseJsonId) == status = 201 /\ Truthy(responseJsonId)

\* (response.status === 200 || response.status === 201) && responseJson?.id
CreateSucceeded(status, responseJsonId) ==
    (status = 200 \/ status = 201) /\ Truthy(responseJsonId)

\* (mutant) the page found by name is used but not recorded
DiscoveredMappingNotRecorded(m, key, id) == m

\* the mapping after a page was found by name: settings.pageMapping[key] = id
DiscoveredMapping(m, key, id) == MapSet(m, key, id)

\* (mutant) the exception of requestUrl is not caught
PcAfterThrowUncaught == "thrown"

\* where control goes when requestUrl throws inside the try block: the catch
\* block sets success = false and the function returns
PcAfterThrow == "returned"

\* (mutant) a failed PUT is followed by another attempt of the same step
PcAfterUpdateFailureRetry == "update"

\* where control goes after a PUT whose status is not 200/204: on to the POST
PcAfterUpdateFailure == "create"

\* cachedRead(file)
ContentOf(path) ==
    LET idx == {i \in 1..Len(vault) : vault[i].path = path} IN
    IF idx = {} THEN <<>> ELSE vault[Min(idx)].content

PutRequest(l) ==
    [method |-> "PUT", ti |-> l.ti, docId |-> l.target.docId, pageId |-> l.targetPageId,
     name |-> l.file.basename, parent |-> NULL, key |-> l.mappingKey, via |-> l.via]

PostRequest(l) ==
    [method |-> "POST", ti |-> l.ti, docId |-> l.target.docId, pageId |-> NULL,
     name |-> l.file.basename,
     parent |-> IF Truthy(l.target.parentPageId) THEN l.target.parentPageId ELSE NULL,
     key |-> l.mappingKey, via |-> l.via]

\* (mutant) the flat list is searched by name whatever the mapping holds
SearchByNameAlways(mapped, existingPages) == existingPages.ok

\* if (!targetPageId && existingPages): the name search is a fallback
SearchByName(mapped, existingPages) == ~Truthy(mapped) /\ existingPages.ok

\* (mutant) the doc id of the target is not tested
FailsFastNoDocCheck(docId, readOk) == ~settings.configured \/ ~readOk

\* the early returns: API key or workspace id missing, doc id missing, or
\* cachedRead throwing
FailsFast(docId, readOk) == ~settings.configured \/ ~Truthy(docId) \/ ~readOk

\* The function from its entry to its first remote call (or early return).
\* l: the caller's locals; existingPages: [ok, pages]; readOk: cachedRead
\* did not throw.
SyncFileEntry(l, file, target, existingPages, readOk) ==
    LET docId     == target.docId
        key       == mappingKey(docId, file.path)
        mapped    == Lookup(pageMapping, key)
        foundPage == IF SearchByName(mapped, existingPages)
                     THEN FindByName(existingPages.pages, file.basename)
                     ELSE NONE
        targetPageId == IF foundPage # NONE THEN foundPage[1].id ELSE mapped
        l0 == [l EXCEPT !.file = [file EXCEPT !.content = ContentOf(file.path)],
                        !.target = target, !.mappingKey = key,
                        !.targetPageId = NULL, !.via = "none",
                        !.responseJsonId = NULL, !.success = FALSE,
                        !.putStatus = -1, !.postStatus = -1, !.postHadId = FALSE,
                        !.puts = 0, !.posts = 0,
                        !.uploads = Append(@, [ti |-> l.ti, path |-> file.path])]
        l1 == [l0 EXCEPT !.targetPageId = targetPageId,
                         !.via = IF foundPage # NONE THEN "name"
                                 ELSE IF Truthy(mapped) THEN "mapping" ELSE "none"]
    IN
    IF FailsFast(docId, readOk)
    THEN /\ pc' = "returned"
         /\ loc' = l0
         /\ UNCHANGED <<pageMapping, requests>>
    ELSE /\ pageMapping' = IF foundPage # NONE
                           THEN DiscoveredMapping(pageMapping, key, targetPageId)
                           ELSE pageMapping
         /\ IF Truthy(targetPageId)
            THEN /\ pc' = "update"
                 /\ loc' = [l1 EXCEPT !.puts = 1]
                 /\ requests' = Append(requests, PutRequest(l1))
            ELSE /\ pc' = "create"
                 /\ loc' = [l1 EXCEPT !.posts = 1]
                 /\ requests' = Append(requests, PostRequest(l1))

\* The PUT is answered; the function runs on to its return or to the POST.
UpdateResponds(a) ==
    /\ pc = "update"
    /\ a \in PutAnswers(PageExists(loc.target.docId, loc.targetPageId), loc.targetPageId)
    /\ MayFail(a)
    /\ faults' = Charge(a)
    /\ remote' = IF a.applied
                 THEN RemoteUpdate(loc.target.docId, loc.targetPageId,
                                   loc.file.basename, loc.file.content)
                 ELSE remote
    /\ IF a.status = 0
       THEN /\ pc' = PcAfterThrow
            /\ loc' = [loc EXCEPT !.success = FALSE, !.putStatus = a.status,
                                  !.putFaults = @ + 1]
            /\ UNCHANGED <<pageMapping, requests>>
       ELSE IF UpdateSucceeded(a.status)
       THEN /\ pc' = "returned"
            /\ loc' = [loc EXCEPT !.success = TRUE, !.responseJsonId = a.jsonId,
                                  !.putStatus = a.status]
            /\ UNCHANGED <<pageMapping, requests>>
       ELSE /\ pageMapping' = MapDelete(pageMapping, loc.mappingKey)
            /\ pc' = PcAfterUpdateFailure
            /\ loc' = [loc EXCEPT !.responseJsonId = a.jsonId, !.targetPageId = NULL,
                                  !.putStatus = a.status, !.posts = @ + 1,
                                  !.putFaults = IF a.fault THEN @ + 1 ELSE @]
            /\ requests' = Append(requests, PostRequest(loc))
    /\ UNCHANGED <<settings, saved, vault, nextId, cleanPass, events>>

\* The POST is answered; the function runs on to its return.
CreateResponds(a) ==
    /\ pc = "create"
    /\ a \in PostAnswers
    /\ MayFail(a)
    /\ faults' = Charge(a)
    /\ remote' = IF a.applied
                 THEN RemoteCreate(loc.target.docId, loc.file.basename, loc.file.content,
                                   IF Truthy(loc.target.parentPageId)
                                   THEN loc.target.parentPageId ELSE NULL)
                 ELSE remote
    /\ nextId' = IF a.applied THEN nextId + 1 ELSE nextId
    /\ LET responseJsonId == IF a.hasId THEN NewPageId(nextId) ELSE loc.responseJsonId IN
       IF a.status = 0
       THEN /\ pc' = PcAfterThrow
            /\ loc' = [loc EXCEPT !.success = FALSE, !.postStatus = a.status]
            /\ UNCHANGED pageMapping
       ELSE IF CreateSucceeded(a.status, responseJsonId)
       THEN /\ pageMapping' = MapSet(pageMapping, loc.mappingKey, responseJsonId)
            /\ pc' = "returned"
            /\ loc' = [loc EXCEPT !.success = TRUE, !.responseJsonId = responseJsonId,
                                  !.postStatus = a.status, !.postHadId = a.hasId]
       ELSE /\ pc' = "returned"
            /\ loc' = [loc EXCEPT !.success = FALSE, !.responseJsonId = responseJsonId,
                                  !.postStatus = a.status, !.postHadId = a.hasId]
            /\ UNCHANGED pageMapping
    /\ UNCHANGED <<settings, saved, vault, requests, cleanPass, events>>

(***************************************************************************)
(* Target Orchestrator: syncVaultToClickupDoc                              *)
(***************************************************************************)
\* totalErrorCount after a failed fetch of the target's pages
ErrorsAfterFetchFailure(n) == n + 1

\* (mutant) a failed fetch ends the loop over the targets (break, not continue)
TargetAfterFetchFailureBreak(ti) == Len(settings.syncTargets) + 1

\* index of the target the loop goes to after a failed fetch (continue)
TargetAfterFetchFailure(ti) == ti + 1

StartPass ==
    /\ pc = "idle"
    /\ requests' = <<>>
    /\ IF ~settings.configured \/ Len(settings.syncTargets) = 0
       THEN UNCHANGED <<pc, loc>>
       ELSE /\ pc' = "target"
            /\ loc' = [LocInit EXCEPT !.op = "pass", !.ti = 1, !.allMdFiles = vault]
    /\ UNCHANGED <<settings, pageMapping, saved, vault, remote, nextId, cleanPass,
                   faults, events>>

CurrentTarget == settings.syncTargets[loc.ti]

\* (mutant) a target without doc id ends the loop over the targets (break)
TargetAfterSkipBreak(ti) == Len(settings.syncTargets) + 1

\* index of the target the loop goes to after a skipped target (continue)
TargetAfterSkip(ti) == ti + 1

\* if (!docId) continue
SkipTarget ==
    /\ pc = "target"
    /\ loc.ti <= Len(settings.syncTargets)
    /\ ~Truthy(CurrentTarget.docId)
    /\ loc' = [loc EXCEPT !.ti = TargetAfterSkip(@)]
    /\ UNCHANGED <<settings, pageMapping, saved, vault, remote, nextId, pc, requests,
                   cleanPass, faults, events>>

\* const existingPagesTree = await getClickUpDocPagesTree(docId, this.settings)
FetchTree(ok) ==
    /\ pc = "target"
    /\ loc.ti <= Len(settings.syncTargets)
    /\ Truthy(CurrentTarget.docId)
    /\ ~ok => faults + events < MaxDisturbances
    /\ faults' = IF ok THEN faults ELSE faults + 1
    /\ IF ok
       THEN /\ pc' = "flat"
            /\ loc' = [loc EXCEPT
                         !.tree = [ok |-> TRUE, t |-> BuildTree(remote[CurrentTarget.docId])],
                         !.attempted = @ \cup {loc.ti}]
       ELSE /\ pc' = "target"
            /\ loc' = [loc EXCEPT !.totalErrorCount = ErrorsAfterFetchFailure(@),
                                  !.ti = TargetAfterFetchFailure(@),
                                  !.attempted = @ \cup {loc.ti},
                                  !.fetchFailed = @ \cup {loc.ti}]
    /\ UNCHANGED <<settings, pageMapping, saved, vault, remote, nextId, requests,
                   cleanPass, events>>

\* const existingPages = await getClickUpDocPages(docId, this.settings), then
\* the filter of allMdFiles
FetchFlat(ok) ==
    /\ pc = "flat"
    /\ ~ok => faults + events < MaxDisturbances
    /\ faults' = IF ok THEN faults ELSE faults + 1
    /\ IF ~ok
       THEN /\ pc' = "target"
            /\ loc' = [loc EXCEPT !.totalErrorCount = ErrorsAfterFetchFailure(@),
                                  !.ti = TargetAfterFetchFailure(@),
                                  !.tree = NoTree,
                                  !.fetchFailed = @ \cup {loc.ti}]
       ELSE LET files == FilesToSyncForTarget(loc.allMdFiles, CurrentTarget.folderPath) IN
            IF Len(files) = 0
            THEN /\ pc' = "target"
                 /\ loc' = [loc EXCEPT !.ti = @ + 1, !.tree = NoTree]
            ELSE /\ pc' = "file"
                 /\ loc' = [loc EXCEPT
                              !.flat = [ok |-> TRUE, pages |-> remote[CurrentTarget.docId]],
                              !.files = files, !.fi = 1,
                              !.targetSuccessCount = 0, !.targetErrorCount = 0]
    /\ UNCHANGED <<settings, pageMapping, saved, vault, remote, nextId, requests,
                   cleanPass, events>>

\* one iteration of the file loop up to the first await of the remote API
UploadFile(readOk) ==
    /\ pc = "file"
    /\ ~readOk => faults + events < MaxDisturbances
    /\ faults' = IF readOk THEN faults ELSE faults + 1
    /\ LET file == loc.files[loc.fi]
           parentId == ResolveParent(file, CurrentTarget, loc.flat.pages, loc.tree)
           modifiedTarget == [CurrentTarget EXCEPT !.parentPageId = parentId]
       IN SyncFileEntry(loc, file, modifiedTarget, loc.flat, readOk)
    /\ UNCHANGED <<settings, saved, vault, remote, nextId, cleanPass, events>>

\* (mutant) the file loop ends at the first file that failed
MoreFilesStopAtFailure(success, fi, files) == success /\ fi < Len(files)

\* for (const file of filesToSyncForTarget): another file follows
MoreFiles(success, fi, files) == fi < Len(files)

\* success ? targetSuccessCount++ : targetErrorCount++; await saveSettings();
\* then the next file, or the end of the target's block
AfterUpload ==
    /\ pc = "returned"
    /\ loc.op = "pass"
    /\ saved' = pageMapping
    /\ LET ok  == IF loc.success THEN loc.targetSuccessCount + 1 ELSE loc.targetSuccessCount
           err == IF loc.success THEN loc.targetErrorCount ELSE loc.targetErrorCount + 1
           l   == [loc EXCEPT !.targetSuccessCount = ok, !.targetErrorCount = err,
                              !.file = NoFile, !.target = NoTarget, !.mappingKey = <<>>,
                              !.targetPageId = NULL, !.via = "none",
                              !.responseJsonId = NULL, !.success = FALSE,
                              !.putStatus = -1, !.postStatus = -1, !.postHadId = FALSE,
                              !.puts = 0, !.posts = 0]
       IN IF MoreFiles(loc.success, loc.fi, loc.files)
          THEN /\ pc' = "file"
               /\ loc' = [l EXCEPT !.fi = @ + 1]
          ELSE /\ pc' = "target"
               /\ loc' = [l EXCEPT !.totalSuccessCount = @ + ok,
                                   !.totalErrorCount = @ + err,
                                   !.targetSuccessCount = 0, !.targetErrorCount = 0,
                                   !.ti = @ + 1, !.fi = 0, !.files = <<>>,
                                   !.tree = NoTree, !.flat = NoFetch]
    /\ UNCHANGED <<settings, pageMapping, vault, remote, nextId, requests, cleanPass,
                   faults, events>>

\* the end of the loop over syncTargets
FinishPass ==
    /\ pc = "target"
    /\ loc.ti > Len(settings.syncTargets)
    /\ pc' = "idle"
    /\ cleanPass' = IF loc.totalErrorCount = 0 /\ loc.undisturbed
                    THEN <<PageIds(remote)>> ELSE <<>>
    /\ requests' = <<>>
    /\ loc' = LocInit
    /\ UNCHANGED <<settings, pageMapping, saved, vault, remote, nextId, faults, events>>

(***************************************************************************)
(* Sync on save: the 'modify' listener and handleAutoSync                  *)
(***************************************************************************)
\* String.prototype.trim (the only white space of the model is " ")
RECURSIVE TrimStart(_)
TrimStart(s) == IF s # <<>> /\ Head(s) = " " THEN TrimStart(Tail(s)) ELSE s

RECURSIVE TrimEnd(_)
TrimEnd(s) ==
    IF s # <<>> /\ s[Len(s)] = " " THEN TrimEnd(SubSeq(s, 1, Len(s) - 1)) ELSE s

Trim(s) == TrimEnd(TrimStart(s))

\* (mutant) targets without a doc id are passed over
findSyncTargetForFileWithDoc(file, syncTargets) ==
    LET idx == {i \in 1..Len(syncTargets) :
                  LET normalizedPath == NormalizedPath(Trim(syncTargets[i].folderPath)) IN
                  /\ Truthy(syncTargets[i].docId)
                  /\ normalizedPath = <<>> \/ StartsWith(file.path, normalizedPath)} IN
    IF idx = {} THEN NONE ELSE <<syncTargets[Min(idx)]>>

\* findSyncTargetForFile: the first target whose trimmed, normalised folder
\* is a prefix of the file path; NONE when there is none
findSyncTargetForFile(file, syncTargets) ==
    LET idx == {i \in 1..Len(syncTargets) :
                  LET normalizedPath == NormalizedPath(Trim(syncTargets[i].folderPath)) IN
                  normalizedPath = <<>> \/ StartsWith(file.path, normalizedPath)} IN
    IF idx = {} THEN NONE ELSE <<syncTargets[Min(idx)]>>

\* parentId as computed in handleAutoSync (only when the tree was fetched)
ResolveParentAuto(file, target, flat, tree) ==
    LET pathParts == Split(RelativePath(file, target.folderPath), <<"/">>) IN
    IF Len(pathParts) > 1 /\ tree.ok
    THEN WalkFolders(pathParts, 1, target.parentPageId, flat, tree)
    ELSE target.parentPageId

\* When handleAutoSync returns, control is back in the event loop: with no
\* operation suspended the plugin is idle, else the suspended operation (kept
\* in `other` with its locals) is the one whose await is answered next.
ResumedPc(l) == IF l.other = <<>> THEN "idle" ELSE l.other[1].pc
ResumedLoc(l) == IF l.other = <<>> THEN LocInit ELSE l.other[1].loc
ResumedRequests(l) == IF l.other = <<>> THEN <<>> ELSE l.other[1].requests

\* The user saves file i with new content.  With syncOnSave the listener
\* calls handleAutoSync, which runs to its first await.
ModifyEvent(i) ==
    /\ pc = "idle"
    /\ faults + events < MaxDisturbances
    /\ i \in 1..Len(vault)
    /\ events' = events + 1
    /\ cleanPass' = <<>>
    /\ vault' = [vault EXCEPT ![i].content = Append(@, "!")]
    /\ LET syncTarget == findSyncTargetForFile(vault[i], settings.syncTargets) IN
       IF settings.syncOnSave /\ syncTarget # NONE
       THEN /\ pc' = "autoTree"
            /\ loc' = [LocInit EXCEPT !.op = "auto", !.file = vault'[i],
                                      !.target = syncTarget[1]]
            /\ requests' = <<>>
       ELSE UNCHANGED <<pc, loc, requests>>
    /\ UNCHANGED <<settings, pageMapping, saved, remote, nextId, faults>>

\* getClickUpDocPages answers null without a request when the credentials
\* or the doc id are missing
FetchPossible(docId) == settings.configured /\ Truthy(docId)

\* const existingPagesTree = await getClickUpDocPagesTree(syncTarget.docId, ...)
AutoFetchTree(ok) ==
    /\ pc = "autoTree"
    /\ ok => FetchPossible(loc.target.docId)
    /\ (~ok /\ FetchPossible(loc.target.docId)) => faults + events < MaxDisturbances
    /\ faults' = IF ~ok /\ FetchPossible(loc.target.docId) THEN faults + 1 ELSE faults
    /\ pc' = "autoFlat"
    /\ loc' = [loc EXCEPT !.tree = IF ok
                                   THEN [ok |-> TRUE, t |-> BuildTree(remote[loc.target.docId])]
                                   ELSE NoTree]
    /\ UNCHANGED <<settings, pageMapping, saved, vault, remote, nextId, requests,
                   cleanPass, events>>

\* const existingPages = await getClickUpDocPages(...); if null return; then
\* parent inference and the call of syncFileToClickupPage
AutoFetchFlat(ok, readOk) ==
    /\ pc = "autoFlat"
    /\ ok => FetchPossible(loc.target.docId)
    /\ LET failures == (IF ~ok /\ FetchPossible(loc.target.docId) THEN 1 ELSE 0)
                       + (IF ok /\ ~readOk THEN 1 ELSE 0) IN
       /\ faults + events + failures <= MaxDisturbances
       /\ faults' = faults + failures
    /\ ~ok => readOk
    /\ IF ~ok
       THEN /\ pc' = ResumedPc(loc)
            /\ loc' = ResumedLoc(loc)
            /\ requests' = ResumedRequests(loc)
            /\ UNCHANGED pageMapping
       ELSE LET flat == [ok |-> TRUE, pages |-> remote[loc.target.docId]]
                parentId == ResolveParentAuto(loc.file, loc.target, flat.pages, loc.tree)
                modifiedTarget == [loc.target EXCEPT !.parentPageId = parentId]
            IN SyncFileEntry([loc EXCEPT !.flat = flat], loc.file, modifiedTarget,
                             flat, readOk)
    /\ UNCHANGED <<settings, saved, vault, remote, nextId, cleanPass, events>>

\* if (success) await this.saveSettings()
AutoAfterUpload ==
    /\ pc = "returned"
    /\ loc.op = "auto"
    /\ saved' = IF loc.success THEN pageMapping ELSE saved
    /\ pc' = ResumedPc(loc)
    /\ loc' = ResumedLoc(loc)
    /\ requests' = ResumedRequests(loc)
    /\ UNCHANGED <<settings, pageMapping, vault, remote, nextId, cleanPass, faults, events>>

(***************************************************************************)
(* The environment                                                         *)
(***************************************************************************)
\* a page is deleted in ClickUp by hand
RemoteDelete(docId, i) ==
    /\ faults + events < MaxDisturbances
    /\ docId \in Docs
    /\ i \in 1..Len(remote[docId])
    /\ events' = events + 1
    /\ cleanPass' = <<>>
    /\ loc' = IF pc = "idle" THEN loc ELSE [loc EXCEPT !.undisturbed = FALSE]
    /\ remote' = [remote EXCEPT ![docId] = SubSeq(@, 1, i - 1) \o SubSeq(@, i + 1, Len(@))]
    /\ UNCHANGED <<settings, pageMapping, saved, vault, nextId, pc, requests, faults>>

\* The application is closed or killed while an operation is suspended; at
\* the next start onload reads pageMapping back from data.json.
Crash ==
    /\ pc # "idle"
    /\ faults + events < MaxDisturbances
    /\ events' = events + 1
    /\ cleanPass' = <<>>
    /\ pageMapping' = saved
    /\ pc' = "idle"
    /\ loc' = LocInit
    /\ requests' = <<>>
    /\ UNCHANGED <<settings, saved, vault, remote, nextId, faults>>

(***************************************************************************)
(* Specification                                                           *)
(***************************************************************************)
Next ==
    \/ StartPass
    \/ SkipTarget
    \/ \E ok \in BOOLEAN : FetchTree(ok)
    \/ \E ok \in BOOLEAN : FetchFlat(ok)
    \/ \E readOk \in BOOLEAN : UploadFile(readOk)
    \/ \E a \in PutAnswers(TRUE, loc.targetPageId) \cup PutAnswers(FALSE, loc.targetPageId) :
          UpdateResponds(a)
    \/ \E a \in PostAnswers : CreateResponds(a)
    \/ AfterUpload
    \/ FinishPass
    \/ \E i \in 1..Len(vault) : ModifyEvent(i)
    \/ \E ok \in BOOLEAN : AutoFetchTree(ok)
    \/ \E ok, readOk \in BOOLEAN : AutoFetchFlat(ok, readOk)
    \/ AutoAfterUpload
    \/ \E docId \in Docs : \E i \in 1..Len(remote[docId]) : RemoteDelete(docId, i)
    \/ Crash

Spec == Init /\ [][Next]_vars

\* requestUrl settles every request: it resolves with a response or rejects
\* (a timeout is a rejection), so a suspended upload is always resumed.
FairSpec ==
    /\ Spec
    /\ WF_vars(\E a \in PutAnswers(TRUE, loc.targetPageId)
                        \cup PutAnswers(FALSE, loc.targetPageId) : UpdateResponds(a))
    /\ WF_vars(\E a \in PostAnswers : CreateResponds(a))

(***************************************************************************)
(* Properties of the upload side                                           *)
(***************************************************************************)
PassEnding == pc = "target" /\ loc.op = "pass" /\ loc.ti > Len(settings.syncTargets)

InUpload == pc \in {"update", "create", "returned"}

LastRequest == requests[Len(requests)]

\* C1 (upload idempotence): at the end of a pass that follows a pass in which
\* nothing failed, with no edit, remote deletion or restart since that pass
\* started, the second pass has issued no POST, every request is a PUT whose
\* page id came from pageMapping, and the remote docs hold the pages they held
\* after the first pass.
UploadIdempotence ==
    (PassEnding /\ cleanPass # <<>>) =>
        /\ \A i \in 1..Len(requests) :
              requests[i].method = "PUT" /\ requests[i].via = "mapping"
        /\ PageIds(remote) = cleanPass[1]

\* The same when, in addition, every PUT of the second pass is answered 200
\* or 204: the case in which the idempotence does hold.
UploadIdempotenceWhenUpdatesSucceed ==
    (PassEnding /\ cleanPass # <<>> /\ loc.putFaults = 0) =>
        /\ \A i \in 1..Len(requests) :
              requests[i].method = "PUT" /\ requests[i].via = "mapping"
        /\ PageIds(remote) = cleanPass[1]

\* C2 (no duplicate or orphan): never does a page that the running upload
\* addressed by PUT for a file (so a page mapped to or adopted for that file)
\* still exist remotely while pageMapping of the file points to another,
\* newly created page of the same name.
NoDuplicateOrOrphan ==
    \A i \in 1..Len(requests) :
        LET r == requests[i] IN
        (r.method = "PUT" /\ r.key \in DOMAIN pageMapping /\ pageMapping[r.key] # r.pageId)
        => ~ \E j, k \in 1..Len(remote[r.docId]) :
                /\ remote[r.docId][j].id = r.pageId
                /\ remote[r.docId][k].id = pageMapping[r.key]
                /\ remote[r.docId][k].name = remote[r.docId][j].name

\* C3 (update-then-create fallback): once the PUT for a known page id was
\* answered with a status other than 200/204, exactly one POST has been
\* issued, after the PUT and for the same file; and if that POST is answered
\* 200/201 with an id, the upload returns true with pageMapping[key] equal to
\* the new id and not to the id the PUT addressed.
UpdateAnsweredWithFailure == InUpload /\ loc.putStatus \notin {-1, 0, 200, 204}

UpdateThenCreateFallback ==
    UpdateAnsweredWithFailure =>
        /\ loc.posts = 1
        /\ Len(requests) >= 2
        /\ LastRequest.method = "POST" /\ LastRequest.key = loc.mappingKey
        /\ requests[Len(requests) - 1].method = "PUT"
        /\ requests[Len(requests) - 1].key = loc.mappingKey
        /\ pc \in {"create", "returned"}
        /\ (pc = "returned" /\ loc.postStatus \in {200, 201} /\ loc.postHadId) =>
              /\ loc.success
              /\ Lookup(pageMapping, loc.mappingKey) = NewPageId(nextId - 1)
              /\ Lookup(pageMapping, loc.mappingKey) # requests[Len(requests) - 1].pageId

UpdateThenCreateFallbackWitness ==
    /\ UpdateAnsweredWithFailure
    /\ pc = "returned" /\ loc.postStatus = 200 /\ loc.postHadId /\ loc.success

\* C4 (name-based discovery): when an upload starts with no mapping entry for
\* (docId, path) and the flat list holds a page named file.basename, the next
\* remote call is the PUT to the first such page and pageMapping[key] already
\* holds that id when the PUT is issued; and an upload that adopted a page by
\* name and whose PUT succeeded has issued no POST.
FirstNamed(pages, name, id) ==
    \E i \in 1..Len(pages) :
        /\ pages[i].name = name /\ pages[i].id = id
        /\ \A j \in 1..(i - 1) : pages[j].name # name

DiscoveryCase(file, docId, id) ==
    /\ mappingKey(docId, file.path) \notin DOMAIN pageMapping
    /\ FirstNamed(loc.flat.pages, file.basename, id)

NameBasedDiscovery ==
    /\ [][\A id \in {loc.flat.pages[i].id : i \in 1..Len(loc.flat.pages)} :
            (/\ pc = "file" /\ pc' \in {"update", "create"}
             /\ DiscoveryCase(loc.files[loc.fi], CurrentTarget.docId, id))
            => /\ pc' = "update"
               /\ loc'.targetPageId = id
               /\ requests'[Len(requests')].method = "PUT"
               /\ requests'[Len(requests')].pageId = id
               /\ Lookup(pageMapping', loc'.mappingKey) = id]_vars
    /\ []((pc = "returned" /\ loc.via = "name" /\ loc.putStatus \in {200, 204})
            => loc.posts = 0 /\ loc.success)

NameBasedDiscoveryWitness ==
    /\ pc = "returned" /\ loc.via = "name" /\ loc.putStatus = 204
    /\ Lookup(pageMapping, loc.mappingKey) = <<"p", "9">>

\* C5 (durable discovery): whenever the PUT of an upload that adopted its page
\* by name is in flight, the saved mapping holds the adopted id for the file.
DurableDiscovery ==
    (pc = "update" /\ loc.via = "name")
        => Lookup(saved, loc.mappingKey) = loc.targetPageId

\* C8 (upload never throws): no exception leaves syncFileToClickupPage; an
\* upload whose PUT or POST raised a transport exception returns false; and
\* after every return the pass goes on to the next file of the target, or to
\* the next target after the last file.
UploadNeverThrows ==
    /\ [](pc # "thrown")
    /\ []((pc = "returned" /\ (loc.putStatus = 0 \/ loc.postStatus = 0)) => ~loc.success)
    /\ [][(pc = "returned" /\ loc.op = "pass" /\ pc' \notin {"returned", "idle"})
            => \/ /\ loc.fi < Len(loc.files)
                  /\ pc' = "file" /\ loc'.fi = loc.fi + 1 /\ loc'.ti = loc.ti
               \/ /\ loc.fi = Len(loc.files)
                  /\ pc' = "target" /\ loc'.ti = loc.ti + 1]_vars

UploadNeverThrowsWitness ==
    /\ pc = "returned" /\ loc.op = "pass" /\ loc.postStatus = 0 /\ ~loc.success
    /\ loc.fi < Len(loc.files)

\* C9 (upload termination): for every upload of the running operation (one
\* file to one target) at most one PUT and at most one POST have been issued,
\* the POST after the PUT; and an upload suspended on a remote call
\* eventually returns (or the application is stopped).
RequestsOf(ti, key, method) ==
    {i \in 1..Len(requests) :
        requests[i].ti = ti /\ requests[i].key = key /\ requests[i].method = method}

AtMostOneCallEach ==
    \A i \in 1..Len(requests) :
        LET r == requests[i] IN
        /\ Cardinality(RequestsOf(r.ti, r.key, "PUT")) <= 1
        /\ Cardinality(RequestsOf(r.ti, r.key, "POST")) <= 1
        /\ \A u \in RequestsOf(r.ti, r.key, "PUT") :
              \A c \in RequestsOf(r.ti, r.key, "POST") : u < c

UploadTermination ==
    /\ [](AtMostOneCallEach /\ loc.puts <= 1 /\ loc.posts <= 1)
    /\ (pc \in {"update", "create"}) ~> (pc \in {"returned", "idle"})

UploadTerminationWitness ==
    /\ pc = "returned" /\ loc.puts = 1 /\ loc.posts = 1
    /\ Cardinality(RequestsOf(loc.ti, loc.mappingKey, "PUT")) = 1
    /\ Cardinality(RequestsOf(loc.ti, loc.mappingKey, "POST")) = 1

\* C10 (fetch failure is contained per target): a failed fetch of the tree or
\* of the flat list adds exactly one to totalErrorCount, issues no request and
\* leads to the top of the target loop; no PUT or POST of the pass belongs to
\* a target whose fetch failed; and at the end of the pass the fetch of every
\* target with a doc id has been attempted.
FetchFailureStep ==
    /\ loc.op = "pass" /\ pc \in {"target", "flat"}
    /\ faults' = faults + 1

FetchFailureContained ==
    /\ [][FetchFailureStep =>
            /\ loc'.totalErrorCount = loc.totalErrorCount + 1
            /\ loc'.totalSuccessCount = loc.totalSuccessCount
            /\ loc'.fetchFailed = loc.fetchFailed \cup {loc.ti}
            /\ requests' = requests
            /\ pc' = "target"]_vars
    /\ [](loc.op = "pass" =>
            \A i \in 1..Len(requests) : requests[i].ti \notin loc.fetchFailed)
    /\ [](PassEnding =>
            \A j \in 1..Len(settings.syncTargets) :
                Truthy(settings.syncTargets[j].docId) => j \in loc.attempted)

FetchFailureContainedWitness ==
    /\ PassEnding /\ loc.fetchFailed = {1} /\ loc.totalErrorCount = 1
    /\ 2 \in loc.attempted /\ loc.totalSuccessCount = 2


(***************************************************************************)
(* Mapping garbage collection (cleanupPageMapping)                         *)
(***************************************************************************)
MaxKeys == 3

GonePath == <<"g", ".", "m", "d">>

\* Keys a data.json may hold when the clean-up starts: well-formed ones for
\* files that exist or not and for docs that are configured or not, a key
\* with an empty doc id, and keys with zero or two separators.
GCKeys ==
    { mappingKey(DocD, FileA.path), mappingKey(DocD, FileNA.path),
      mappingKey(DocD, GonePath), mappingKey(DocE, FileA.path),
      mappingKey(<<>>, FileA.path),
      DocD \o FileA.path,
      mappingKey(DocD, mappingKey(<<"n">>, FileA.path)) }

GCPageIds == {<<"p", "9">>, <<"c", "1">>}

GCMappings ==
    UNION { [K -> GCPageIds] : K \in {S \in SUBSET GCKeys : Cardinality(S) <= MaxKeys} }

GCVaults == { InitVault, <<FileNA>>, <<>> }

InitGC ==
    /\ settings \in SettingsChoices
    /\ pageMapping \in GCMappings
    /\ saved \in {pageMapping, EmptyMap}
    /\ vault \in GCVaults
    /\ remote = InitRemote
    /\ nextId = 1
    /\ pc = "idle"
    /\ loc = [op |-> "none", changed |-> FALSE, removed |-> {}]
    /\ requests = <<>>
    /\ cleanPass = <<>>
    /\ faults = 0
    /\ events = 0

\* a mapping entry the loop deletes: mutant without the doc id check
StaleKeyFileOnly(key, allMdFilesPaths, validDocIds) ==
    LET parts == Split(key, SEP) IN
    \/ Len(parts) # 2
    \/ parts[2] \notin allMdFilesPaths

\* a mapping entry the loop deletes
StaleKey(key, allMdFilesPaths, validDocIds) ==
    LET parts == Split(key, SEP) IN
    \/ Len(parts) # 2
    \/ LET docId        == parts[1]
           obsidianPath == parts[2]
           fileExists   == obsidianPath \in allMdFilesPaths
           docIdIsValid == docId \in validDocIds IN
       ~fileExists \/ ~docIdIsValid

\* loc.removed is the set of keys the console reports as removed
cleanupPageMapping ==
    /\ pc = "idle"
    /\ LET allMdFilesPaths == {vault[i].path : i \in 1..Len(vault)}
           validDocIds == {settings.syncTargets[i].docId :
                              i \in 1..Len(settings.syncTargets)}
           removed == {k \in DOMAIN pageMapping :
                          StaleKey(k, allMdFilesPaths, validDocIds)}
           changed == removed # {} IN
       /\ pageMapping' = [k \in DOMAIN pageMapping \ removed |-> pageMapping[k]]
       /\ saved' = IF changed THEN pageMapping' ELSE saved
       /\ loc' = [op |-> "cleanup", changed |-> changed, removed |-> removed]
    /\ pc' = "cleaned"
    /\ UNCHANGED <<settings, vault, remote, nextId, requests, cleanPass, faults, events>>

NextGC == cleanupPageMapping

SpecGC == InitGC /\ [][NextGC]_vars

\* the entries the clean-up is to retain
Retained(m, files, targets) ==
    {k \in DOMAIN m :
        /\ Len(Split(k, SEP)) = 2
        /\ \E i \in 1..Len(files), j \in 1..Len(targets) :
              k = mappingKey(targets[j].docId, files[i].path)}

\* C6: after cleanupPageMapping, pageMapping holds exactly the earlier
\* entries whose key splits on ':::' into exactly two parts (docId, path) with
\* path a current markdown file path and docId the doc id of a configured sync
\* target; every other entry is removed and the retained page ids are
\* unchanged.
GarbageCollectionResult ==
    [][ (pc = "idle" /\ pc' = "cleaned") =>
          /\ DOMAIN pageMapping' = Retained(pageMapping, vault, settings.syncTargets)
          /\ \A k \in DOMAIN pageMapping' : pageMapping'[k] = pageMapping[k] ]_vars

\* a clean-up that removed the entry of an unconfigured doc and a key without
\* separator, retained the entry of an existing file of a configured doc, and
\* saved the result
GarbageCollectionResultWitness ==
    /\ pc = "cleaned"
    /\ loc.removed = {mappingKey(DocE, FileA.path), DocD \o FileA.path}
    /\ DOMAIN pageMapping = {mappingKey(DocD, FileA.path)}
    /\ pageMapping[mappingKey(DocD, FileA.path)] = <<"c", "1">>
    /\ saved = pageMapping


(***************************************************************************)
(* The tree builder on arbitrary fetched lists (getClickUpDocPagesTree)    *)
(***************************************************************************)
MaxPages == 3

TreeIds == {<<"1">>, <<"2">>, <<"3">>}

\* parent_id of a fetched page: null, the id of a possible page, or an id no
\* page of the doc has
TreeParents == {NULL} \cup TreeIds \cup {<<"z">>}

\* the i-th page of a fetched list is named by its position
TreePage(i, id, parent_id) == Page(id, <<"n", ToString(i)>>, parent_id, <<>>)

\* the fetched list of n pages with these ids and parent ids
PageList(n, ids, parents) == [i \in 1..n |-> TreePage(i, ids[i], parents[i])]

InitTree ==
    /\ settings = [configured |-> TRUE, syncOnSave |-> FALSE,
                   syncTargets |-> <<SyncTarget(DocD, <<>>, NULL)>>]
    /\ pageMapping = EmptyMap
    /\ saved = EmptyMap
    /\ vault = InitVault
    /\ remote = InitRemote
    /\ nextId = 1
    /\ pc = "idle"
    /\ \E n \in 0..MaxPages :
         \E ids \in [1..n -> TreeIds], parents \in [1..n -> TreeParents] :
            loc = [op |-> "tree", pages |-> PageList(n, ids, parents), tree |-> NoTree]
    /\ requests = <<>>
    /\ cleanPass = <<>>
    /\ faults = 0
    /\ events = 0

\* getClickUpDocPagesTree when getClickUpDocPages answers loc.pages (ok), or
\* null
getClickUpDocPagesTree(ok) ==
    /\ pc = "idle"
    /\ loc' = [loc EXCEPT !.tree = IF ok THEN [ok |-> TRUE, t |-> BuildTree(loc.pages)]
                                   ELSE NoTree]
    /\ pc' = "built"
    /\ UNCHANGED <<settings, pageMapping, saved, vault, remote, nextId, requests,
                   cleanPass, faults, events>>

NextTree == \E ok \in BOOLEAN : getClickUpDocPagesTree(ok)

SpecTree == InitTree /\ [][NextTree]_vars


\* page P of the fetched list is in the root list: a root node has its id
InRootList(P, t) == \E i \in 1..Len(t.roots) : t.roots[i] = P.id

\* the number of times P is in the children list of the node with this id
TimesChildOf(P, id, t) ==
    IF id \in DOMAIN t.children
    THEN Cardinality({i \in 1..Len(t.children[id]) : t.children[id][i] = P.id})
    ELSE 0

ListIds(pages) == {pages[i].id : i \in 1..Len(pages)}

\* what the tree invariant asks of the i-th page of the fetched list
TreePlaces(pages, i, t) ==
    LET P == pages[i] IN
    IF ~Truthy(P.parent_id) \/ P.parent_id \notin ListIds(pages)
    THEN InRootList(P, t)
    ELSE /\ \A r \in 1..Len(t.roots) : t.roots[r] # P.id
         /\ TimesChildOf(P, P.parent_id, t) = 1

LastOfItsId(pages, i) == \A j \in (i + 1)..Len(pages) : pages[j].id # pages[i].id

NoWriteWithoutSnapshot ==
    /\ loc.op = "pass" =>
          \A i \in 1..Len(requests) : requests[i].ti \notin loc.fetchFailed
    /\ (loc.op \in {"pass", "auto"} /\ requests # <<>> /\ pc \in {"update", "create"})
          => (loc.tree.ok /\ loc.flat.ok)

\* the upload attempts (calls of syncFileToClickupPage) of the running pass
\* for target j and this path
UploadsOf(j, path) ==
    {i \in 1..Len(loc.uploads) : loc.uploads[i].ti = j /\ loc.uploads[i].path = path}

\* the path lies under the folder of the target (every path, for the root)
UnderFolder(path, folderPath) ==
    \/ folderPath = <<>>
    \/ StartsWith(path, IF folderPath[Len(folderPath)] = "/" THEN folderPath
                        ELSE folderPath \o <<"/">>)

\* C12 (file failures do not stop the batch): at the end of a pass every
\* file under the folder of a target with a doc id whose fetches succeeded
\* has had exactly one upload attempt for that target, and
\* totalSuccessCount + totalErrorCount is the number of upload attempts plus
\* the number of targets whose fetch failed.
BatchContinues ==
    PassEnding =>
        /\ \A j \in 1..Len(settings.syncTargets) :
              (Truthy(settings.syncTargets[j].docId) /\ j \notin loc.fetchFailed) =>
                 \A f \in 1..Len(loc.allMdFiles) :
                    UnderFolder(loc.allMdFiles[f].path, settings.syncTargets[j].folderPath)
                       => Cardinality(UploadsOf(j, loc.allMdFiles[f].path)) = 1
        /\ loc.totalSuccessCount + loc.totalErrorCount
              = Len(loc.uploads) + Cardinality(loc.fetchFailed)

\* a pass ends in which the upload of the first file failed before any
\* request and the second file was uploaded all the same
BatchContinuesWitness ==
    /\ PassEnding
    /\ Len(loc.uploads) = 2
    /\ loc.totalErrorCount = 1 /\ loc.totalSuccessCount = 1
    /\ mappingKey(DocD, FileA.path) \notin DOMAIN pageMapping
    /\ mappingKey(DocD, FileNA.path) \in DOMAIN pageMapping

(***************************************************************************)
(* Download: getClickUpPageContent, syncClickUpToVault and                 *)
(* processClickUpPageForDownload                                           *)
(***************************************************************************)
\* page.id.substring(0, 8)
IdPrefixLen == 8

\* s.substring(0, n)
Prefix(s, n) == SubSeq(s, 1, IF Len(s) < n THEN Len(s) ELSE n)

\* s.lastIndexOf(c), 1-based, 0 when c is not in s
LastIndexOf(s, c) ==
    LET idx == {i \in 1..Len(s) : s[i] = c} IN
    IF idx = {} THEN 0 ELSE CHOOSE i \in idx : \A j \in idx : j <= i

\* s.replace(sub, ''): the first occurrence of sub is removed
ReplaceFirst(s, sub) ==
    LET i == IndexFrom(s, sub, 1) IN
    IF i = 0 THEN s ELSE SubSeq(s, 1, i - 1) \o Substring(s, i - 1 + Len(sub))

ForbiddenChars == {"\\", "/", ":", "*", "?", "\"", "<", ">", "|"}
WhiteSpace == {" ", "\t", "\n"}

\* .replace(/\s+/g, ' ')
RECURSIVE CollapseSpaces(_)
CollapseSpaces(s) ==
    IF s = <<>> THEN <<>>
    ELSE IF Head(s) \in WhiteSpace
    THEN IF Len(s) > 1 /\ s[2] \in WhiteSpace
         THEN CollapseSpaces(Tail(s))
         ELSE <<" ">> \o CollapseSpaces(Tail(s))
    ELSE <<Head(s)>> \o CollapseSpaces(Tail(s))

\* sanitizeFileName: forbidden characters become '-', runs of white space one
\* space, then trim
sanitizeFileName(fileName) ==
    Trim(CollapseSpaces([i \in 1..Len(fileName) |->
                            IF fileName[i] \in ForbiddenChars THEN "-" ELSE fileName[i]]))

\* `# ${pageTitle}\n\n` + `*ClickUp Page ID: ${pageId}*\n\n` + content,
\* mutant: the content alone
FormattedContentBare(name, pageId, content) == content

\* `# ${pageTitle}\n\n` + `*ClickUp Page ID: ${pageId}*\n\n` + content
FormattedContent(name, pageId, content) ==
    <<"#", " ">> \o (IF Truthy(name) THEN name
                     ELSE <<"C", "l", "i", "c", "k", "U", "p", " ", "P", "a", "g", "e">>)
    \o <<"\n", "\n">>
    \o <<"*", "C", "l", "i", "c", "k", "U", "p", " ", "P", "a", "g", "e", " ", "I", "D",
         ":", " ">>
    \o pageId \o <<"*", "\n", "\n">> \o content

\* the text of the body of the answer of the content endpoint for a page
\* without content
EmptyContentBody ==
    <<"{", "\"", "c", "o", "n", "t", "e", "n", "t", "\"", ":", "\"", "\"", "}">>

\* Answers to the requests of getClickUpPageContent: the page request fails
\* (error status or exception), or it answers the page; for a page without
\* content a second request to the content endpoint follows, which answers
\* 200 or an error status.
ContentAnswers ==
    { [ok |-> FALSE, second |-> TRUE,  fault |-> TRUE],
      [ok |-> TRUE,  second |-> TRUE,  fault |-> FALSE],
      [ok |-> TRUE,  second |-> FALSE, fault |-> TRUE] }

\* getClickUpPageContent(page.id, docId, settings) for a page of the doc as
\* the remote service holds it; NONE for null
getClickUpPageContent(page, a) ==
    IF ~a.ok THEN NONE
    ELSE LET content ==
                 IF Truthy(page.id) /\ ~Truthy(page.content)
                 THEN IF a.second THEN EmptyContentBody ELSE <<>>
                 ELSE page.content IN
         <<FormattedContent(page.name, page.id, content)>>

\* findPageById(pages, id) of syncClickUpToVault: depth-first over the node
\* ids `ids` of tree t and their pages arrays; NONE for null
RECURSIVE findPageById(_, _, _)
findPageById(ids, id, t) ==
    IF ids = <<>> THEN NONE
    ELSE LET page == t.node[Head(ids)] IN
         IF page.id = id THEN <<page>>
         ELSE LET found == IF t.children[page.id] # <<>>
                           THEN findPageById(t.children[page.id], id, t)
                           ELSE NONE IN
              IF found # NONE THEN found ELSE findPageById(Tail(ids), id, t)

\* The calls of processClickUpPageForDownload that the loop over `ids` with
\* currentPath makes, in the order they start: each page, then its children
\* with currentPath extended by the sanitized page name.
RECURSIVE DownloadCalls(_, _, _)
DownloadCalls(ids, currentPath, t) ==
    IF ids = <<>> THEN <<>>
    ELSE LET page == t.node[Head(ids)]
             newSubfolderPath == currentPath \o sanitizeFileName(page.name) \o <<"/">> IN
         <<[page |-> page, currentPath |-> currentPath]>>
         \o (IF t.children[page.id] # <<>>
             THEN DownloadCalls(t.children[page.id], newSubfolderPath, t)
             ELSE <<>>)
         \o DownloadCalls(Tail(ids), currentPath, t)

\* folderPath ? (folderPath.endsWith('/') ? folderPath : folderPath + '/') : ''
BasePath(folderPath) ==
    IF Truthy(folderPath)
    THEN (IF EndsWith(folderPath, <<"/">>) THEN folderPath ELSE folderPath \o <<"/">>)
    ELSE <<>>

\* (mutant) the page id is never appended to a file name already used
DownloadFileNameNoSuffix(page, processedFileNames) == sanitizeFileName(page.name)

\* fileName of a page before the extension is added
DownloadFileName(page, processedFileNames) ==
    LET fileName == sanitizeFileName(page.name) IN
    IF fileName \in processedFileNames
    THEN fileName \o <<"-">> \o Prefix(page.id, IdPrefixLen)
    ELSE fileName

MdExt == <<".", "m", "d">>

\* if (!fileName.endsWith('.md')) fileName += '.md'
WithMdExt(fileName) == IF EndsWith(fileName, MdExt) THEN fileName ELSE fileName \o MdExt

\* filePath.substring(0, filePath.lastIndexOf('/'))
DirPath(filePath) == Prefix(filePath, LastIndexOf(filePath, "/") - 1)

\* index in the vault of existingFile, 0 when find() gives undefined
ExistingFile(v, filePath, fileName) ==
    LET dirPath == DirPath(filePath)
        idx == {i \in 1..Len(v) :
                  /\ (Truthy(dirPath) => StartsWith(v[i].path, dirPath \o <<"/">>))
                  /\ v[i].basename = ReplaceFirst(fileName, MdExt)} IN
    IF idx = {} THEN 0 ELSE Min(idx)

\* TFile.basename of a new file: the file name without its extension
Basename(fileName) ==
    LET dot == LastIndexOf(fileName, ".") IN
    IF dot <= 1 THEN fileName ELSE SubSeq(fileName, 1, dot - 1)

DownLocInit ==
    [op |-> "down", target |-> NoTarget, parentPageId |-> NULL, basePath |-> <<>>,
     outcome |-> "running", calls |-> <<>>, ci |-> 0,
     successCount |-> 0, errorCount |-> 0, processedFileNames |-> {},
     pageContent |-> <<>>, fileName |-> <<>>, filePath |-> <<>>, existingFile |-> 0,
     written |-> <<>>, failed |-> {}]

MaxDownPages == 3

\* Page ids as ClickUp forms them, a workspace prefix of eight characters and
\* a number, or with a prefix of their own
WsPrefix == <<"8", "c", "d", "d", "5", "p", "5", "-">>
DownPageId(i, shared) ==
    IF shared THEN WsPrefix \o <<ToString(i)>>
    ELSE <<ToString(i)>> \o WsPrefix \o <<ToString(i)>>

DownNames == {<<"N">>, <<"s">>}

DownFolder == <<"f">>

\* the vault a download starts with: empty, or holding a note N.md in the
\* subfolder s of the destination folder
DownVaults ==
    { <<>>,
      <<[path |-> DownFolder \o <<"/", "s", "/", "N">> \o MdExt, basename |-> <<"N">>,
         content |-> <<"o">>]>> }

\* The doc the download reads: page i is a root (parents[i] = 0) or the child
\* of an earlier page; every second page has no content.
DownPages(n, names, parents, shared) ==
    [i \in 1..n |->
        Page(DownPageId(i, shared), names[i],
             IF parents[i] = 0 THEN NULL ELSE DownPageId(parents[i], shared),
             IF i % 2 = 1 THEN <<"x">> ELSE <<>>)]

InitDown ==
    /\ settings = [configured |-> TRUE, syncOnSave |-> FALSE,
                   syncTargets |-> <<SyncTarget(DocD, DownFolder, NULL)>>]
    /\ pageMapping = EmptyMap
    /\ saved = EmptyMap
    /\ vault \in DownVaults
    /\ \E n \in 0..MaxDownPages :
         \E names \in [1..n -> DownNames], shared \in BOOLEAN,
            parents \in {p \in [1..n -> 0..n] : \A i \in 1..n : p[i] < i} :
            remote = [d \in Docs |-> IF d = DocD
                                     THEN DownPages(n, names, parents, shared) ELSE <<>>]
    /\ nextId = 1
    /\ pc = "idle"
    /\ loc = DownLocInit
    /\ requests = <<>>
    /\ cleanPass = <<>>
    /\ faults = 0
    /\ events = 0

\* syncClickUpToVault(target, parentPageId) up to the await of the tree
syncClickUpToVault(target, parentPageId) ==
    /\ pc = "idle"
    /\ IF ~settings.configured \/ ~Truthy(target.docId)
       THEN /\ pc' = "downDone"
            /\ loc' = [DownLocInit EXCEPT !.target = target,
                                          !.parentPageId = parentPageId,
                                          !.outcome = "notConfigured"]
       ELSE /\ pc' = "downTree"
            /\ loc' = [DownLocInit EXCEPT !.target = target,
                                          !.parentPageId = parentPageId]
    /\ UNCHANGED <<settings, pageMapping, saved, vault, remote, nextId, requests,
                   cleanPass, faults, events>>

\* where the pass goes once the calls are known: to the first page, or to its
\* end when there is none
DownloadBegins(l, calls) ==
    [l EXCEPT !.calls = calls, !.ci = IF calls = <<>> THEN 0 ELSE 1,
              !.outcome = IF calls = <<>> THEN "complete" ELSE "running"]

\* (mutant) the parent page id does not narrow the download
PagesOfParentWholeDoc(parentPage, t) == t.roots

\* parentPage.pages: the node ids of the children of the parent page
PagesOfParent(parentPage, t) == t.children[parentPage.id]

\* the tree is fetched; the parent page is looked up when one is given
DownloadFetchTree(ok) ==
    /\ pc = "downTree"
    /\ ~ok => faults + events < MaxDisturbances
    /\ faults' = IF ok THEN faults ELSE faults + 1
    /\ LET t == BuildTree(remote[loc.target.docId])
           l == [loc EXCEPT !.basePath = BasePath(loc.target.folderPath)]
           parentPage == findPageById(t.roots, loc.parentPageId, t) IN
       IF ~ok
       THEN /\ pc' = "downDone"
            /\ loc' = [l EXCEPT !.outcome = "fetchFailed"]
       ELSE IF Truthy(loc.parentPageId)
       THEN IF parentPage = NONE
            THEN /\ pc' = "downDone"
                 /\ loc' = [l EXCEPT !.outcome = "parentNotFound"]
            ELSE IF PagesOfParent(parentPage[1], t) = <<>>
            THEN /\ pc' = "downDone"
                 /\ loc' = [l EXCEPT !.outcome = "noChildren"]
            ELSE /\ pc' = "downContent"
                 /\ loc' = DownloadBegins(l, DownloadCalls(PagesOfParent(parentPage[1], t),
                                                           <<>>, t))
       ELSE /\ pc' = IF t.roots = <<>> THEN "downDone" ELSE "downContent"
            /\ loc' = DownloadBegins(l, DownloadCalls(t.roots, <<>>, t))
    /\ UNCHANGED <<settings, pageMapping, saved, vault, remote, nextId, requests,
                   cleanPass, events>>

\* the page of the doc with this id as the remote service holds it
RemotePage(docId, pageId) ==
    remote[docId][CHOOSE i \in 1..Len(remote[docId]) : remote[docId][i].id = pageId]

\* after a page: the next call in order, or the completion notice
DownloadAdvance(l) ==
    IF l.ci < Len(l.calls)
    THEN [l EXCEPT !.ci = @ + 1, !.pageContent = <<>>, !.fileName = <<>>,
                   !.filePath = <<>>, !.existingFile = 0]
    ELSE [l EXCEPT !.outcome = "complete", !.pageContent = <<>>, !.fileName = <<>>,
                   !.filePath = <<>>, !.existingFile = 0]

\* l is the record after the page
DownloadPcAfter(l) == IF l.outcome = "complete" THEN "downDone" ELSE "downContent"

\* (mutant) a page that failed ends the pass
DownloadAfterFailureStop(l) == [l EXCEPT !.ci = Len(l.calls), !.outcome = "complete"]

\* after a failed content fetch or the catch of writeError the function goes
\* on to the children
DownloadAfterFailure(l) == DownloadAdvance(l)

\* (mutant) a failed content fetch is not counted
ContentFetchFailedUncounted(l, page) == [l EXCEPT !.failed = @ \cup {page.id}]

\* if (!pageContent) { ... errorCount++; }
ContentFetchFailed(l, page) ==
    [l EXCEPT !.errorCount = @ + 1, !.failed = @ \cup {page.id}]

\* processClickUpPageForDownload from its start to the await of the write:
\* the content is fetched and the file name and path are prepared
DownloadContent(a) ==
    /\ pc = "downContent"
    /\ LET call == loc.calls[loc.ci]
           page == call.page
           stored == RemotePage(loc.target.docId, page.id)
           pageContent == getClickUpPageContent(stored, a)
           fileName0 == DownloadFileName(page, loc.processedFileNames)
           fileName == WithMdExt(fileName0)
           filePath == loc.basePath \o call.currentPath \o fileName IN
       /\ (a.ok /\ ~a.second) => ~Truthy(stored.content)
       /\ a.fault => faults + events < MaxDisturbances
       /\ faults' = IF a.fault THEN faults + 1 ELSE faults
       /\ IF pageContent = NONE
          THEN /\ loc' = DownloadAfterFailure(ContentFetchFailed(loc, page))
               /\ pc' = DownloadPcAfter(loc')
          ELSE /\ pc' = "downWrite"
               /\ loc' = [loc EXCEPT !.pageContent = pageContent[1],
                                     !.processedFileNames = @ \cup {fileName0},
                                     !.fileName = fileName, !.filePath = filePath,
                                     !.existingFile = ExistingFile(vault, filePath, fileName)]
    /\ UNCHANGED <<settings, pageMapping, saved, vault, remote, nextId, requests,
                   cleanPass, events>>

DownloadWriteOutcomes == {"ok", "writeFails", "saveFails"}

\* (mutant) the mapping key is built from the path of the file written
DownloadMappingPathOfFile(l, v) ==
    IF l.existingFile > 0 THEN v[l.existingFile].path ELSE l.filePath

\* const mappingKey = `${docId}:::${filePath}`: the path the key is built from
DownloadMappingPath(l, v) == l.filePath

\* The listener of 'modify' for a file that vault.modify has written: with
\* syncOnSave, the sync target handleAutoSync finds for the file
ListenerTarget(file) ==
    IF settings.syncOnSave THEN findSyncTargetForFile(file, settings.syncTargets)
    ELSE NONE

\* handleAutoSync started by the listener up to its first await, the
\* operation that wrote the file being suspended at pc0 with locals l0
ListenerStarted(file, syncTarget, pc0, l0) ==
    [LocInit EXCEPT !.op = "auto", !.file = file, !.target = syncTarget,
                    !.other = <<[pc |-> pc0, loc |-> l0, requests |-> requests]>>]

\* vault.modify or vault.create, the mapping entry and saveSettings; then the
\* children, which are the next calls.  vault.modify raises 'modify', whose
\* listener starts handleAutoSync when syncOnSave is set.
DownloadWrite(w) ==
    /\ pc = "downWrite"
    /\ LET page == loc.calls[loc.ci].page
           exists == \E i \in 1..Len(vault) : vault[i].path = loc.filePath
           canWrite == loc.existingFile > 0 \/ ~exists
           written == IF loc.existingFile > 0
                      THEN [vault EXCEPT ![loc.existingFile].content = loc.pageContent]
                      ELSE Append(vault, [path |-> loc.filePath,
                                          basename |-> Basename(loc.fileName),
                                          content |-> loc.pageContent])
           path == IF loc.existingFile > 0 THEN vault[loc.existingFile].path
                   ELSE loc.filePath
           key == mappingKey(loc.target.docId, DownloadMappingPath(loc, vault))
           log == Append(loc.written, [id |-> page.id, path |-> path])
           after ==
              CASE w = "ok" ->
                     DownloadAdvance([loc EXCEPT !.successCount = @ + 1, !.written = log])
                [] w = "saveFails" ->
                     DownloadAfterFailure([loc EXCEPT !.errorCount = @ + 1,
                                                      !.written = log,
                                                      !.failed = @ \cup {page.id}])
                [] OTHER ->
                     DownloadAfterFailure([loc EXCEPT !.errorCount = @ + 1,
                                                      !.failed = @ \cup {page.id}])
           syncTarget == IF w # "writeFails" /\ loc.existingFile > 0
                         THEN ListenerTarget(written[loc.existingFile])
                         ELSE NONE IN
       /\ w = "ok" => canWrite
       /\ w = "saveFails" => canWrite
       /\ (w # "ok" /\ canWrite) => faults + events < MaxDisturbances
       /\ faults' = IF w # "ok" /\ canWrite THEN faults + 1 ELSE faults
       /\ CASE w = "ok" ->
                 /\ vault' = written
                 /\ pageMapping' = MapSet(pageMapping, key, page.id)
                 /\ saved' = pageMapping'
            [] w = "saveFails" ->
                 /\ vault' = written
                 /\ pageMapping' = MapSet(pageMapping, key, page.id)
                 /\ saved' = saved
            [] OTHER ->
                 UNCHANGED <<vault, pageMapping, saved>>
       /\ IF syncTarget # NONE
          THEN /\ pc' = "autoTree"
               /\ loc' = ListenerStarted(written[loc.existingFile], syncTarget[1],
                                         DownloadPcAfter(after), after)
               /\ requests' = <<>>
          ELSE /\ pc' = DownloadPcAfter(after)
               /\ loc' = after
               /\ requests' = requests
    /\ UNCHANGED <<settings, remote, nextId, cleanPass, events>>

NextDown ==
    \/ \E parentPageId \in {NULL, DownPageId(1, TRUE), DownPageId(1, FALSE)} :
          syncClickUpToVault(settings.syncTargets[1], parentPageId)
    \/ \E ok \in BOOLEAN : DownloadFetchTree(ok)
    \/ \E a \in ContentAnswers : DownloadContent(a)
    \/ \E w \in DownloadWriteOutcomes : DownloadWrite(w)

SpecDown == InitDown /\ [][NextDown]_vars

(***************************************************************************)
(* Properties of the download                                              *)
(***************************************************************************)
\* C13 (distinct download file names): in a download pass a page whose
\* sanitized name was already used in the pass gets the file name
\* '<sanitized name>-<first 8 characters of its id>.md', and no two pages of
\* the pass are written to the same file.
DistinctDownloadFiles ==
    /\ [][(pc = "downContent" /\ pc' = "downWrite") =>
            LET page == loc.calls[loc.ci].page IN
            sanitizeFileName(page.name) \in loc.processedFileNames =>
               loc'.fileName = sanitizeFileName(page.name) \o <<"-">>
                                \o SubSeq(page.id, 1, 8) \o <<".", "m", "d">>]_vars
    /\ [](\A i, j \in 1..Len(loc.written) :
             loc.written[i].id # loc.written[j].id
                => loc.written[i].path # loc.written[j].path)


(***************************************************************************)
(* Parent inference: files below the target folder                         *)
(***************************************************************************)
\* A vault with one file two folders deep, docs whose pages carry the names
\* of none, one or both of the folders (made by hand in ClickUp), and a
\* target with a configured fallback parent at the root or at folder "n".
FileNMB == [path |-> <<"n", "/", "m", "/", "b", ".", "m", "d">>, basename |-> <<"b">>,
            content |-> <<"x">>]

InferRemotes ==
    { <<>>,
      <<Page(<<"p", "n">>, <<"n">>, NULL, <<>>)>>,
      <<Page(<<"p", "m">>, <<"m">>, NULL, <<>>)>>,
      <<Page(<<"p", "n">>, <<"n">>, NULL, <<>>),
        Page(<<"p", "m">>, <<"m">>, <<"p", "n">>, <<>>)>> }

InferSettings ==
    { [configured |-> TRUE, syncOnSave |-> TRUE,
       syncTargets |-> <<SyncTarget(DocD, <<>>, <<"p", "0">>)>>],
      [configured |-> TRUE, syncOnSave |-> TRUE,
       syncTargets |-> <<SyncTarget(DocD, <<"n">>, <<"p", "0">>),
                         SyncTarget(<<>>, <<>>, NULL)>>] }

InitInfer ==
    /\ settings \in InferSettings
    /\ pageMapping = EmptyMap
    /\ saved = EmptyMap
    /\ vault = <<FileNMB>>
    /\ \E pages \in InferRemotes :
          remote = [d \in Docs |-> IF d = DocD THEN pages ELSE <<>>]
    /\ nextId = 1
    /\ pc = "idle"
    /\ loc = LocInit
    /\ requests = <<>>
    /\ cleanPass = <<>>
    /\ faults = 0
    /\ events = 0

SpecInfer == InitInfer /\ [][Next]_vars

\* the target the running upload was started for, as configured
ConfiguredTarget ==
    IF loc.op = "auto"
    THEN findSyncTargetForFile(loc.file, settings.syncTargets)[1]
    ELSE settings.syncTargets[loc.ti]

\* the directory segments of the file in upload below the target folder
DirSegments ==
    LET pathParts == Split(RelativePath(loc.file, ConfiguredTarget.folderPath), <<"/">>) IN
    SubSeq(pathParts, 1, Len(pathParts) - 1)

\* the page a segment matches by name in what the operation fetched: first
\* match of the flat list, else first match of the tree search
SegmentMatch(s) == FolderPage(s, loc.flat.pages, loc.tree)

\* the parent the segments stand for: the page of the last segment that has
\* a match, the configured parent when none has
ExpectedParent ==
    LET matching == {i \in 1..Len(DirSegments) : SegmentMatch(DirSegments[i]) # NONE}
        last     == CHOOSE i \in matching : \A j \in matching : j <= i
    IN IF matching = {} THEN ConfiguredTarget.parentPageId
       ELSE SegmentMatch(DirSegments[last])[1].id

\* C14 (parent inference): whenever a create call is in flight for a file,
\* its parent id is the id of the page matched by the last directory segment
\* of the file that has a name match, and the target's configured
\* parentPageId when no segment matches.
ParentInference ==
    pc = "create" => LastRequest.parent = ExpectedParent

\* the same for the creates of syncVaultToClickupDoc, and of handleAutoSync
\* when its tree fetch succeeded
ParentInferenceWithTree ==
    (pc = "create" /\ loc.tree.ok) => LastRequest.parent = ExpectedParent

ParentInferenceWitness ==
    /\ pc = "create"
    /\ loc.tree.ok
    /\ Len(DirSegments) = 2
    /\ SegmentMatch(DirSegments[1]) # NONE
    /\ SegmentMatch(DirSegments[2]) = NONE
    /\ LastRequest.parent = <<"p", "n">>


(***************************************************************************)
(* Round trip: a file is uploaded to an empty doc, the doc is downloaded   *)
(***************************************************************************)
\* the contents C of the file: one character, a heading line, nothing
RTContents == { <<"x">>, <<"#", " ", "a", "\n">>, <<>> }

RTUploadTarget == SyncTarget(DocD, <<"u">>, NULL)

\* the download goes to folder f, which does not exist yet
RTDownloadTarget == SyncTarget(DocD, DownFolder, NULL)

RTFilePath == <<"u", "/", "a", ".", "m", "d">>

InitRT ==
    /\ settings = [configured |-> TRUE, syncOnSave |-> FALSE,
                   syncTargets |-> <<RTUploadTarget>>]
    /\ pageMapping = EmptyMap
    /\ saved = EmptyMap
    /\ \E C \in RTContents :
          vault = <<[path |-> RTFilePath, basename |-> <<"a">>, content |-> C]>>
    /\ remote = [d \in Docs |-> <<>>]
    /\ nextId = 1
    /\ pc = "idle"
    /\ loc = LocInit
    /\ requests = <<>>
    /\ cleanPass = <<>>
    /\ faults = 0
    /\ events = 0

\* the upload command, then the download of the whole doc
NextRT ==
    \/ StartPass
    \/ \E ok \in BOOLEAN : FetchTree(ok)
    \/ \E ok \in BOOLEAN : FetchFlat(ok)
    \/ \E readOk \in BOOLEAN : UploadFile(readOk)
    \/ /\ pc = "update"
       /\ \E a \in PutAnswers(TRUE, loc.targetPageId)
                    \cup PutAnswers(FALSE, loc.targetPageId) : UpdateResponds(a)
    \/ \E a \in PostAnswers : CreateResponds(a)
    \/ AfterUpload
    \/ FinishPass
    \/ syncClickUpToVault(RTDownloadTarget, NULL)
    \/ \E ok \in BOOLEAN : DownloadFetchTree(ok)
    \/ \E a \in ContentAnswers : DownloadContent(a)
    \/ \E w \in DownloadWriteOutcomes : DownloadWrite(w)

SpecRT == InitRT /\ [][NextRT]_vars

\* the download has ended with every page written, and the doc holds the one
\* page the upload made
RoundTripDone ==
    /\ pc = "downDone"
    /\ loc.outcome = "complete"
    /\ loc.errorCount = 0
    /\ Len(remote[DocD]) = 1
    /\ remote[DocD][1].content = vault[1].content

\* the files the download wrote
Downloaded == {i \in 1..Len(vault) : StartsWith(vault[i].path, DownFolder \o <<"/">>)}

\* the header getClickUpPageContent puts before the content of a page
PageHeader(page) ==
    <<"#", " ">> \o page.name \o <<"\n", "\n">>
    \o <<"*", "C", "l", "i", "c", "k", "U", "p", " ", "P", "a", "g", "e", " ", "I", "D",
         ":", " ">> \o page.id \o <<"*", "\n", "\n">>

AwaitingRequest == {"update", "create", "autoTree", "autoFlat"}

\* The user saves file i while an operation waits for a request: the
\* listener of 'modify' calls handleAutoSync at once, which runs to its first
\* await; the waiting operation stays suspended with its locals.
ModifyWhileBusy(i) ==
    /\ pc \in AwaitingRequest
    /\ loc.other = <<>>
    /\ faults + events < MaxDisturbances
    /\ i \in 1..Len(vault)
    /\ events' = events + 1
    /\ cleanPass' = <<>>
    /\ vault' = [vault EXCEPT ![i].content = Append(@, "!")]
    /\ LET syncTarget == findSyncTargetForFile(vault[i], settings.syncTargets) IN
       IF settings.syncOnSave /\ syncTarget # NONE
       THEN /\ pc' = "autoTree"
            /\ loc' = [LocInit EXCEPT
                         !.op = "auto", !.file = vault'[i], !.target = syncTarget[1],
                         !.other = <<[pc |-> pc, loc |-> loc, requests |-> requests]>>]
            /\ requests' = <<>>
       ELSE /\ loc' = [loc EXCEPT !.undisturbed = FALSE]
            /\ UNCHANGED <<pc, requests>>
    /\ UNCHANGED <<settings, pageMapping, saved, remote, nextId, faults>>

NextConc ==
    \/ Next
    \/ \E i \in 1..Len(vault) : ModifyWhileBusy(i)

SpecConc == Init /\ [][NextConc]_vars

\* the operations started and not yet ended
InFlight == (IF pc = "idle" THEN 0 ELSE 1) + Len(loc.other)

\* C16 (sequential execution): at no time are two sync operations in flight
\* together, and handleAutoSync never has a remote call in flight nor writes
\* pageMapping while another operation is suspended at an await.
SequentialExecution ==
    /\ [](InFlight <= 1)
    /\ [][loc.other # <<>> /\ loc.op = "auto" => pageMapping' = pageMapping]_vars

\* handleAutoSync has its PUT or POST in flight while a pass waits for the
\* answer to its own
OverlappingRequests ==
    /\ loc.op = "auto"
    /\ pc \in {"update", "create"}
    /\ loc.other # <<>>
    /\ loc.other[1].loc.op = "pass"
    /\ loc.other[1].pc \in {"update", "create"}


(***************************************************************************)
(* Properties of the download: scope and failures                          *)
(***************************************************************************)
\* the pages processClickUpPageForDownload was called for and has finished
\* with: the page was written, or it was counted as an error
ProcessedIds == {loc.written[i].id : i \in 1..Len(loc.written)} \cup loc.failed

DocPages == remote[loc.target.docId]

\* page i of the doc has the page with this id among its proper ancestors
\* (in the docs of the model a parent comes before its children)
RECURSIVE HasAncestor(_, _)
HasAncestor(i, id) ==
    LET parent == DocPages[i].parent_id IN
    /\ Truthy(parent)
    /\ \/ parent = id
       \/ \E j \in 1..(i - 1) : DocPages[j].id = parent /\ HasAncestor(j, id)

DownloadEnded == pc = "downDone" /\ loc.outcome \notin {"fetchFailed", "notConfigured"}

ParentFound == \E i \in 1..Len(DocPages) : DocPages[i].id = loc.parentPageId

ParentHasChildren == \E i \in 1..Len(DocPages) : DocPages[i].parent_id = loc.parentPageId

\* C17 (scoped download): a download with a parent page id that is found in
\* the tree and has children processes exactly the pages of the subtrees of
\* its children; when the parent is not found or has no children no page is
\* processed, no file is written and pageMapping is unchanged; with no parent
\* page id every page of the doc (the subtree of every root) is processed.
ScopedDownload ==
    DownloadEnded =>
       IF ~Truthy(loc.parentPageId)
       THEN ProcessedIds = {DocPages[i].id : i \in 1..Len(DocPages)}
       ELSE IF ParentFound /\ ParentHasChildren
       THEN ProcessedIds = {DocPages[i].id : i \in {j \in 1..Len(DocPages) :
                                                       HasAncestor(j, loc.parentPageId)}}
       ELSE /\ ProcessedIds = {}
            /\ vault \in DownVaults
            /\ pageMapping = EmptyMap

\* a scoped download ended that processed the child and the grandchild of the
\* parent page and not the parent page itself
ScopedDownloadWitness ==
    /\ DownloadEnded
    /\ Truthy(loc.parentPageId)
    /\ Cardinality(ProcessedIds) = 2
    /\ Len(DocPages) = 3
    /\ DocPages[3].parent_id = DocPages[2].id


\* the children of the page with this id in the doc
ChildIds(id) == {DocPages[i].id : i \in {j \in 1..Len(DocPages) : DocPages[j].parent_id = id}}

\* C18 (download failure does not block descendants): a page whose content
\* fetch or file write fails adds exactly one to the error count, and when
\* the pass has ended every child of such a page has been processed.
FailureKeepsDescendants ==
    /\ loc.errorCount = Cardinality(loc.failed)
    /\ (pc = "downDone" /\ loc.outcome = "complete") =>
          \A id \in loc.failed : ChildIds(id) \subseteq ProcessedIds

\* the pass has ended; two pages that have a child failed (content fetch or
\* write), and the child of one of them was written
FailureKeepsDescendantsWitness ==
    /\ pc = "downDone"
    /\ loc.outcome = "complete"
    /\ loc.errorCount = 2
    /\ Len(loc.written) = 1
    /\ \A id \in loc.failed : ChildIds(id) # {}
    /\ \E id \in loc.failed : loc.written[1].id \in ChildIds(id)


(***************************************************************************)
(* Further properties of the upload entry points: saved mapping, sync on   *)
(* save                                                                    *)
(***************************************************************************)
\* C19 (persisted mapping tracks memory): whenever a per-file upload has
\* finished and its caller has gone on, in syncVaultToClickupDoc or in
\* handleAutoSync and whether the upload succeeded or failed, the saved
\* pageMapping equals the pageMapping in memory.
SavedTracksMemory ==
    [][(pc = "returned" /\ pc' # "returned") => saved' = pageMapping']_vars

\* the same for the uploads of syncVaultToClickupDoc alone
SavedTracksMemoryInPass ==
    [][(pc = "returned" /\ loc.op = "pass" /\ pc' # "returned")
          => saved' = pageMapping']_vars


\* Settings for sync on save: one target at the vault root; a target row
\* without doc id at the root listed before the target of folder n; sync on
\* save switched off.
SaveSettings ==
    { [configured |-> TRUE, syncOnSave |-> TRUE,
       syncTargets |-> <<SyncTarget(DocD, <<>>, NULL)>>],
      [configured |-> TRUE, syncOnSave |-> TRUE,
       syncTargets |-> <<SyncTarget(<<>>, <<>>, NULL), SyncTarget(DocD, <<"n">>, NULL)>>],
      [configured |-> TRUE, syncOnSave |-> FALSE,
       syncTargets |-> <<SyncTarget(DocD, <<>>, NULL)>>] }

InitSave ==
    /\ settings \in SaveSettings
    /\ pageMapping = EmptyMap
    /\ saved = EmptyMap
    /\ vault = InitVault
    /\ remote = InitRemote
    /\ nextId = 1
    /\ pc = "idle"
    /\ loc = LocInit
    /\ requests = <<>>
    /\ cleanPass = <<>>
    /\ faults = 0
    /\ events = 0

\* requestUrl settles every request, those of the two page fetches of
\* handleAutoSync included; nothing obliges the user to start a command.
FairSpecSave ==
    /\ InitSave /\ [][Next]_vars
    /\ WF_vars(\E a \in PutAnswers(TRUE, loc.targetPageId)
                        \cup PutAnswers(FALSE, loc.targetPageId) : UpdateResponds(a))
    /\ WF_vars(\E a \in PostAnswers : CreateResponds(a))
    /\ WF_vars(\E ok \in BOOLEAN : AutoFetchTree(ok))
    /\ WF_vars(\E ok, readOk \in BOOLEAN : AutoFetchFlat(ok, readOk))

\* the targets with a doc id whose folder the path lies under
TargetsFor(path) ==
    {i \in 1..Len(settings.syncTargets) :
        /\ Truthy(settings.syncTargets[i].docId)
        /\ UnderFolder(path, settings.syncTargets[i].folderPath)}

\* handleAutoSync has a PUT or POST in flight for the file it was called
\* with, to a target with a doc id whose folder holds the file
AutoAttempt ==
    /\ loc.op = "auto"
    /\ pc \in {"update", "create"}
    /\ \E i \in TargetsFor(loc.file.path) :
          settings.syncTargets[i].docId = loc.target.docId
    /\ LastRequest.docId = loc.target.docId /\ LastRequest.name = loc.file.basename

\* the step is the user saving the file with this path while the plugin is idle
ModifyStep(path) ==
    /\ pc = "idle"
    /\ \E i \in 1..Len(vault) : vault[i].path = path /\ vault'[i].content # vault[i].content

Paths == {InitVault[i].path : i \in 1..Len(InitVault)}

\* failures and changes from outside so far
Disturbances == faults + events

\* C20 (sync on save): with syncOnSave on, the save of a file that lies under
\* the folder of a target with a doc id starts handleAutoSync for the file,
\* and from there an update or create call for the file to such a target
\* follows, unless a request or the read of the file fails or the run is
\* disturbed from outside (crash, remote deletion, another save) before.
SyncOnSave ==
    /\ [][\A path \in Paths :
             (ModifyStep(path) /\ settings.syncOnSave /\ TargetsFor(path) # {})
                => (pc' = "autoTree" /\ loc'.file.path = path)]_vars
    /\ \A d \in 1..MaxDisturbances :
          (/\ pc = "autoTree" /\ settings.syncOnSave
           /\ TargetsFor(loc.file.path) # {}
           /\ Disturbances = d)
             ~> (AutoAttempt \/ Disturbances > d)

\* the same when the first target whose folder holds the file has a doc id
SyncOnSaveFirstTarget ==
    \A d \in 1..MaxDisturbances :
       (/\ pc = "autoTree" /\ settings.syncOnSave
        /\ Truthy(loc.target.docId)
        /\ Disturbances = d)
          ~> (AutoAttempt \/ Disturbances > d)


(***************************************************************************)
(* Properties of syncFileToClickupPage: the answers of the update and      *)
(* create calls, precedence of the mapping, configuration                  *)
(***************************************************************************)
\* the step in which the PUT of the running upload is answered with this status
UpdateAnsweredWith(statuses) ==
    pc = "update" /\ loc.putStatus = -1 /\ loc'.putStatus \in statuses

\* C21 (successful update is a dead end): when the update call is answered
\* 200 or 204, syncFileToClickupPage returns true, no create call is issued,
\* and pageMapping[docId:::path] is the id of the page that was updated.
UpdateSuccessIsFinal ==
    [][UpdateAnsweredWith({200, 204}) =>
          /\ pc' = "returned"
          /\ loc'.success
          /\ loc'.posts = 0
          /\ requests' = requests
          /\ LastRequest.method = "PUT"
          /\ Lookup(pageMapping', mappingKey(loc.target.docId, loc.file.path))
                = LastRequest.pageId]_vars

\* an update answered 204 (no body) has returned true with no create call
UpdateSuccessIsFinalWitness ==
    /\ pc = "returned"
    /\ loc.putStatus = 204
    /\ loc.success
    /\ loc.posts = 0
    /\ Lookup(pageMapping, loc.mappingKey) = LastRequest.pageId


\* the step in which the POST of the running upload is answered and
\* syncFileToClickupPage returns
CreateAnswered == pc = "create" /\ pc' = "returned"

\* the answer to the POST had status 200 or 201 and a body with an id
CreateAccepted(l) == l.postStatus \in {200, 201} /\ l.postHadId

\* C22 (create needs status and id): a create call counts as success exactly
\* when its status is 200 or 201 and its parsed body has an id; in every
\* other case the upload returns false and pageMapping has no entry for
\* (docId, path) afterwards.
CreateNeedsStatusAndId ==
    [][CreateAnswered =>
          /\ loc'.success <=> CreateAccepted(loc')
          /\ ~CreateAccepted(loc') =>
                Lookup(pageMapping', mappingKey(loc.target.docId, loc.file.path)) = NULL]_vars

\* the same when no body of an earlier update call of the upload had an id
CreateNeedsStatusAndIdFreshBody ==
    [][(CreateAnswered /\ loc.responseJsonId = NULL) =>
          /\ loc'.success <=> CreateAccepted(loc')
          /\ ~CreateAccepted(loc') =>
                Lookup(pageMapping', mappingKey(loc.target.docId, loc.file.path)) = NULL]_vars


\* the step in which syncFileToClickupPage is entered for this file and runs
\* to its first request
UploadEntered ==
    /\ pc \in {"file", "autoFlat"}
    /\ pc' \in {"update", "create"}
    /\ loc'.other = loc.other

\* C23 (mapping takes precedence over names): when pageMapping has an entry
\* for (docId, file.path) at the entry of syncFileToClickupPage, the first
\* call is an update of the mapped page id, and the flat list is not searched
\* by name: pageMapping is left as it is, also when the list holds another
\* page whose name is file.basename.
MappingBeforeNames ==
    [][UploadEntered =>
          LET key == mappingKey(loc'.target.docId, loc'.file.path) IN
          Truthy(Lookup(pageMapping, key)) =>
             /\ pc' = "update"
             /\ requests'[Len(requests')].method = "PUT"
             /\ requests'[Len(requests')].pageId = Lookup(pageMapping, key)
             /\ loc'.via = "mapping"
             /\ pageMapping' = pageMapping]_vars

\* an update of the mapped page is in flight while the flat list holds a
\* different page with the name of the file before it
MappingBeforeNamesWitness ==
    /\ pc = "update"
    /\ loc.via = "mapping"
    /\ loc.puts = 1
    /\ LastRequest.pageId = Lookup(pageMapping, loc.mappingKey)
    /\ FindByName(loc.flat.pages, loc.file.basename) # NONE
    /\ FindByName(loc.flat.pages, loc.file.basename)[1].id # LastRequest.pageId


(***************************************************************************)
(* Properties of syncVaultToClickupDoc: targets without a doc id           *)
(***************************************************************************)
\* the pass stands at a target whose doc id is empty
AtTargetWithoutDoc ==
    /\ pc = "target"
    /\ loc.op = "pass"
    /\ loc.ti <= Len(settings.syncTargets)
    /\ ~Truthy(settings.syncTargets[loc.ti].docId)

\* C24 (targets without a doc id are skipped): at a target whose docId is
\* empty the pass makes no remote call (no fetch, no PUT or POST), leaves the
\* success and error counts as they are and goes on to the next target; at
\* the end of the pass every target with a doc id has had its fetch
\* attempted, and no fetch or request belongs to a target without one.
TargetsWithoutDocSkipped ==
    /\ [][(AtTargetWithoutDoc /\ events' = events) =>
             /\ pc' = "target"
             /\ loc'.ti = loc.ti + 1
             /\ requests' = requests
             /\ faults' = faults
             /\ remote' = remote
             /\ loc'.attempted = loc.attempted
             /\ loc'.totalSuccessCount = loc.totalSuccessCount
             /\ loc'.totalErrorCount = loc.totalErrorCount]_vars
    /\ [](PassEnding =>
             \A j \in 1..Len(settings.syncTargets) :
                IF Truthy(settings.syncTargets[j].docId)
                THEN j \in loc.attempted
                ELSE /\ j \notin loc.attempted
                     /\ \A i \in 1..Len(requests) : requests[i].ti # j)

\* a pass has ended that skipped its first target and uploaded a file to its
\* second
TargetsWithoutDocSkippedWitness ==
    /\ PassEnding
    /\ ~Truthy(settings.syncTargets[1].docId)
    /\ 1 \notin loc.attempted
    /\ 2 \in loc.attempted
    /\ \E i \in 1..Len(requests) : requests[i].ti = 2
    /\ loc.totalSuccessCount = 1
    /\ loc.totalErrorCount = 0


(***************************************************************************)
(* syncFileToClickupPage called on its own, with any configuration         *)
(***************************************************************************)
\* clickUpApiKey and clickUpWorkspaceId, empty or not; `configured` says
\* that both are present
EntrySettings ==
    { [configured |-> Truthy(key) /\ Truthy(ws), clickUpApiKey |-> key,
       clickUpWorkspaceId |-> ws, syncOnSave |-> FALSE,
       syncTargets |-> <<SyncTarget(docId, <<>>, NULL)>>] :
         key \in {<<>>, <<"k">>}, ws \in {<<>>, <<"w">>}, docId \in {<<>>, DocD} }

InitEntry ==
    /\ settings \in EntrySettings
    /\ pageMapping \in {EmptyMap, MapSet(EmptyMap, mappingKey(DocD, FileA.path), <<"p", "9">>),
                        MapSet(EmptyMap, mappingKey(<<>>, FileA.path), <<"p", "9">>)}
    /\ saved = pageMapping
    /\ vault = InitVault
    /\ remote = InitRemote
    /\ nextId = 1
    /\ pc = "idle"
    /\ loc = LocInit
    /\ requests = <<>>
    /\ cleanPass = <<>>
    /\ faults = 0
    /\ events = 0

\* syncFileToClickupPage(file, syncTarget, settings, existingPages) is called
\* and runs to its first request or to an early return; existingPages is the
\* list of the doc or null
CallSyncFile(i, withPages, readOk) ==
    /\ pc = "idle"
    /\ i \in 1..Len(vault)
    /\ ~readOk => faults + events < MaxDisturbances
    /\ faults' = IF readOk THEN faults ELSE faults + 1
    /\ LET target == settings.syncTargets[1]
           existingPages == IF withPages /\ target.docId \in Docs
                            THEN [ok |-> TRUE, pages |-> remote[target.docId]]
                            ELSE NoFetch
       IN SyncFileEntry([LocInit EXCEPT !.op = "call", !.flat = existingPages],
                        vault[i], target, existingPages, readOk)
    /\ UNCHANGED <<settings, saved, vault, remote, nextId, cleanPass, events>>

\* the caller has the result
CallReturns ==
    /\ pc = "returned"
    /\ loc.op = "call"
    /\ pc' = "idle"
    /\ loc' = [LocInit EXCEPT !.success = loc.success]
    /\ requests' = <<>>
    /\ UNCHANGED <<settings, pageMapping, saved, vault, remote, nextId, cleanPass,
                   faults, events>>

NextEntry ==
    \/ \E i \in 1..Len(vault), withPages, readOk \in BOOLEAN : CallSyncFile(i, withPages, readOk)
    \/ /\ pc = "update"
       /\ \E a \in PutAnswers(TRUE, loc.targetPageId)
                    \cup PutAnswers(FALSE, loc.targetPageId) : UpdateResponds(a)
    \/ \E a \in PostAnswers : CreateResponds(a)
    \/ CallReturns

SpecEntry == InitEntry /\ [][NextEntry]_vars

\* syncFileToClickupPage is entered in this step
FunctionEntered == pc = "idle" /\ pc' # "idle"

ConfigurationMissing ==
    \/ ~Truthy(settings.clickUpApiKey)
    \/ ~Truthy(settings.clickUpWorkspaceId)
    \/ ~Truthy(loc'.target.docId)

\* C25 (configuration errors fail fast): when the API key, the workspace id
\* or the doc id of the target is empty, syncFileToClickupPage returns false
\* with no remote call issued and pageMapping unchanged.
ConfigurationFailsFast ==
    [][(FunctionEntered /\ ConfigurationMissing) =>
          /\ pc' = "returned"
          /\ ~loc'.success
          /\ requests' = requests
          /\ remote' = remote
          /\ pageMapping' = pageMapping]_vars

\* the function has returned false at once for a target without doc id,
\* with key and workspace id present and a mapping entry and a page of the
\* file's name at hand
ConfigurationFailsFastWitness ==
    /\ pc = "returned"
    /\ loc.op = "call"
    /\ ~loc.success
    /\ settings.configured
    /\ ~Truthy(loc.target.docId)
    /\ Truthy(Lookup(pageMapping, loc.mappingKey))
    /\ requests = <<>>


(***************************************************************************)
(* Further properties of getClickUpDocPagesTree and findPageByNameInTree   *)
(***************************************************************************)
TreeBuilt == pc = "built" /\ loc.tree.ok

\* the ids in the children lists of the nodes with these ids
ChildrenOfAll(S, t) == UNION {SeqToSet(t.children[id]) : id \in S}

\* S and everything reached from S by following children at most k times
RECURSIVE FollowChildren(_, _, _)
FollowChildren(S, k, t) ==
    IF k = 0 THEN S ELSE FollowChildren(S \cup ChildrenOfAll(S, t), k - 1, t)

\* the proper descendants of the node with this id
DescendantsOf(id, t) == FollowChildren(ChildrenOfAll({id}, t), MaxPages + 1, t)

\* the positions of the root list from which the node with this id is reached
RootsReaching(id, t) ==
    {r \in 1..Len(t.roots) : id = t.roots[r] \/ id \in DescendantsOf(t.roots[r], t)}

IsForest(pages, t) ==
    /\ \A i \in 1..Len(pages) : Cardinality(RootsReaching(pages[i].id, t)) = 1
    /\ \A id \in DOMAIN t.children : id \notin DescendantsOf(id, t)

\* C26 (the built structure is a forest for every input): for any fetched
\* page list, lists with a parent cycle or a page that is its own parent
\* included, every page of the list is reachable from exactly one returned
\* root by following children, and no node is its own descendant.
ForestForEveryInput ==
    TreeBuilt => IsForest(loc.pages, loc.tree.t)

\* the page with this id has itself among its ancestors by parent_id
OnParentCycle(id, pages) ==
    LET parentOf(x) == IF x \in ListIds(pages) THEN PageMapNode(pages, x).parent_id ELSE NULL
        up[k \in 0..(MaxPages + 1)] ==
            IF k = 0 THEN parentOf(id) ELSE parentOf(up[k - 1])
    IN \E k \in 0..(MaxPages + 1) : up[k] = id

\* the same for the lists without a parent cycle
ForestWithoutCycles ==
    (TreeBuilt /\ \A i \in 1..Len(loc.pages) : ~OnParentCycle(loc.pages[i].id, loc.pages))
        => IsForest(loc.pages, loc.tree.t)


\* position in the fetched list of the first page with this id, and of the
\* last one (the page whose fields the node carries)
FirstPosition(id, pages) == Min({i \in 1..Len(pages) : pages[i].id = id})
LastPosition(id, pages) ==
    CHOOSE i \in 1..Len(pages) : pages[i].id = id /\ LastOfItsId(pages, i)

\* the node ids of the list are in the order given by pos
InOrderOf(ids, pos(_)) ==
    \A a, b \in 1..Len(ids) : a < b => pos(ids[a]) < pos(ids[b])

FindNames == {<<"a">>, <<"A">>}

\* parent_id of a page of a searched tree: null or the id of a possible page
FindParents == {NULL} \cup TreeIds

InitFind ==
    /\ settings = [configured |-> TRUE, syncOnSave |-> FALSE,
                   syncTargets |-> <<SyncTarget(DocD, <<>>, NULL)>>]
    /\ pageMapping = EmptyMap
    /\ saved = EmptyMap
    /\ vault = InitVault
    /\ remote = InitRemote
    /\ nextId = 1
    /\ pc = "idle"
    /\ \E n \in 0..MaxPages :
         \E ids \in [1..n -> TreeIds], parents \in [1..n -> FindParents],
            names \in [1..n -> FindNames] :
            loc = [op |-> "tree",
                   pages |-> [i \in 1..n |-> Page(ids[i], names[i], parents[i], <<>>)],
                   tree |-> NoTree, name |-> <<>>, found |-> NONE]
    /\ requests = <<>>
    /\ cleanPass = <<>>
    /\ faults = 0
    /\ events = 0

\* const foundInTree = findPageByNameInTree(folderName, existingPagesTree)
CallFindPageByNameInTree(name) ==
    /\ pc = "built"
    /\ loc.tree.ok
    /\ loc' = [loc EXCEPT !.name = name,
                          !.found = findPageByNameInTree(name, loc.tree.t.roots, loc.tree.t)]
    /\ pc' = "found"
    /\ UNCHANGED <<settings, pageMapping, saved, vault, remote, nextId, requests,
                   cleanPass, faults, events>>

NextFind ==
    \/ \E ok \in BOOLEAN : getClickUpDocPagesTree(ok)
    \/ \E name \in FindNames : CallFindPageByNameInTree(name)

SpecFind == InitFind /\ [][NextFind]_vars

\* the node ids of the forest in depth-first pre-order: a node, then the
\* pre-order of its children, then its following siblings
RECURSIVE PreOrder(_, _)
PreOrder(ids, t) ==
    IF ids = <<>> THEN <<>>
    ELSE <<Head(ids)>> \o PreOrder(t.children[Head(ids)], t) \o PreOrder(Tail(ids), t)

\* positions in the pre-order of the nodes with the searched name
NamedPositions(name, t) ==
    {i \in 1..Len(PreOrder(t.roots, t)) : t.node[PreOrder(t.roots, t)[i]].name = name}

\* C28 (name locator): findPageByNameInTree(name, nodes) returns the first
\* node in depth-first pre-order over the forest whose name equals name
\* exactly, case included, and null when no node of the forest has that name.
NameLocator ==
    pc = "found" =>
       LET t == loc.tree.t
           at == NamedPositions(loc.name, t) IN
       IF at = {} THEN loc.found = NONE
       ELSE loc.found = <<t.node[PreOrder(t.roots, t)[Min(at)]]>>

\* the name is borne by a child of the first root and by the second root, and
\* the first root bears it in the other case: the child is returned
NameLocatorWitness ==
    /\ pc = "found"
    /\ Len(loc.tree.t.roots) = 2
    /\ Cardinality(NamedPositions(loc.name, loc.tree.t)) = 2
    /\ loc.tree.t.node[loc.tree.t.roots[1]].name # loc.name
    /\ loc.tree.t.node[loc.tree.t.roots[2]].name = loc.name
    /\ loc.found # NONE
    /\ loc.found[1].id \in SeqToSet(loc.tree.t.children[loc.tree.t.roots[1]])


(***************************************************************************)
(* The mapping and the counts of a download                                *)
(***************************************************************************)
\* the page of the call in progress and the key of its file path
DownloadPage == loc.calls[loc.ci].page
DownloadKey ==
    mappingKey(loc.target.docId,
               BasePath(loc.target.folderPath) \o loc.calls[loc.ci].currentPath
                  \o loc.fileName)

\* a step of processClickUpPageForDownload that counts the page as a success
PageSucceeds == pc = "downWrite" /\ loc'.successCount = loc.successCount + 1

\* a step in which the content fetch of the page fails, or its file write
PageFetchOrWriteFails ==
    /\ pc \in {"downContent", "downWrite"}
    /\ loc'.errorCount = loc.errorCount + 1
    /\ loc'.written = loc.written

\* C29 (download records the mapping): when processClickUpPageForDownload
\* has written a page successfully, pageMapping[docId ::: (basePath +
\* currentPath + fileName)] is the id of that page and the mapping has been
\* saved; a page whose content fetch or file write failed adds no entry.
DownloadRecordsMapping ==
    [][/\ PageSucceeds =>
            /\ Lookup(pageMapping', DownloadKey) = DownloadPage.id
            /\ Lookup(saved', DownloadKey) = DownloadPage.id
            /\ saved' = pageMapping'
       /\ PageFetchOrWriteFails =>
            /\ pageMapping' = pageMapping
            /\ saved' = saved]_vars

\* a pass in which one page was written over a note found in a subfolder and
\* another page failed: the mapping holds the one entry, keyed by the path in
\* the destination folder, and is saved
DownloadRecordsMappingWitness ==
    /\ pc \in {"downContent", "downWrite", "downDone"}
    /\ loc.successCount = 1
    /\ loc.errorCount >= 1
    /\ Len(loc.written) = 1
    /\ DOMAIN pageMapping # {}
    /\ \A k \in DOMAIN pageMapping :
          /\ pageMapping[k] = loc.written[1].id
          /\ k # mappingKey(loc.target.docId, loc.written[1].path)
    /\ saved = pageMapping


\* the pages of the pass counted as a success, by their ids
SucceededIn(l) == {l.written[i].id : i \in 1..Len(l.written)} \ l.failed

\* the ids of the proper ancestors of each page of the remote doc (in the
\* docs of the model a parent comes before its children)
AncestorIds ==
    LET anc[k \in 1..Len(DocPages)] ==
            IF Truthy(DocPages[k].parent_id)
            THEN {DocPages[k].parent_id}
                 \cup UNION {anc[j] : j \in {j \in 1..(k - 1) :
                                                DocPages[j].id = DocPages[k].parent_id}}
            ELSE {}
    IN anc

\* the subtree of the page with this id: the page and all its descendants
\* among the pages of the remote doc
SubtreeOf(id, anc) ==
    {id} \cup {DocPages[k].id : k \in {k \in 1..Len(DocPages) : id \in anc[k]}}

Subtree(i) == SubtreeOf(loc.calls[i].page.id, AncestorIds)

\* the call in progress ends in this step
PageEnds ==
    /\ pc \in {"downContent", "downWrite"}
    /\ loc'.ci # loc.ci \/ loc'.outcome = "complete"

\* the page of the call is counted once, as a success or as an error, and
\* recorded as such
CountedOnce ==
    \/ /\ loc'.successCount = loc.successCount + 1
       /\ loc'.errorCount = loc.errorCount
       /\ DownloadPage.id \in SucceededIn(loc')
    \/ /\ loc'.successCount = loc.successCount
       /\ loc'.errorCount = loc.errorCount + 1
       /\ DownloadPage.id \in loc'.failed

CountsKept ==
    /\ loc'.successCount = loc.successCount
    /\ loc'.errorCount = loc.errorCount

\* at the end of the pass l: the counts are those of the pages recorded, the
\* calls of a subtree follow the call of its page, and each of its pages is
\* a success or an error
SubtreesCounted(l) ==
    LET ok  == SucceededIn(l)
        anc == AncestorIds IN
    /\ l.successCount = Cardinality(ok)
    /\ l.errorCount = Cardinality(l.failed)
    /\ \A i \in 1..Len(l.calls) :
          LET sub  == SubtreeOf(l.calls[i].page.id, anc)
              size == Cardinality(sub) IN
          /\ Cardinality(sub \cap ok) + Cardinality(sub \cap l.failed) = size
          /\ sub = {l.calls[j].page.id : j \in i..(i + size - 1)}

\* C30 (download counts partition the subtree): for every page tree and
\* every pattern of content-fetch and write failures the counts of
\* processClickUpPageForDownload for a page satisfy success + error = number
\* of pages of its subtree, each page being counted exactly once.
CountsPartitionSubtree ==
    [][/\ (pc \in {"downContent", "downWrite"}) =>
             IF PageEnds THEN CountedOnce ELSE CountsKept
       /\ (pc' = "downDone" /\ loc'.outcome = "complete") => SubtreesCounted(loc')]_vars

\* a finished pass over a page with a child and another page, with a success
\* and with a failed content fetch and a failed write
CountsPartitionSubtreeWitness ==
    /\ DownloadEnded /\ loc.outcome = "complete"
    /\ Len(loc.calls) = 3
    /\ Cardinality(Subtree(1)) = 2
    /\ loc.successCount = 1
    /\ loc.errorCount = 2
    /\ Len(loc.written) = 1
    /\ faults >= 1


\* C31 (mapped path is the written file): after a successful page download
\* the local path in the mapping key of the page is the path of the file
\* whose content was written, also when a file of the same base name in a
\* subfolder below the destination directory was the one overwritten.
MappedPathIsWrittenFile ==
    [][PageSucceeds =>
          LET last == loc'.written[Len(loc'.written)] IN
          /\ last.id = DownloadPage.id
          /\ \E i \in 1..Len(vault') :
                vault'[i].path = last.path /\ vault'[i].content = loc.pageContent
          /\ Lookup(pageMapping', mappingKey(loc.target.docId, last.path)) = last.id]_vars

\* the same for the pages written to a file that vault.create made
MappedPathIsCreatedFile ==
    [][(PageSucceeds /\ loc.existingFile = 0) =>
          LET last == loc'.written[Len(loc'.written)] IN
          /\ last.id = DownloadPage.id
          /\ \E i \in 1..Len(vault') :
                vault'[i].path = last.path /\ vault'[i].content = loc.pageContent
          /\ Lookup(pageMapping', mappingKey(loc.target.docId, last.path)) = last.id]_vars


(***************************************************************************)
(* Further properties of the upload                                        *)
(***************************************************************************)
\* the keys of doc d in a mapping
KeysOfDoc(m, d) == {k \in DOMAIN m : StartsWith(k, d \o SEP) /\ Truthy(m[k])}

\* C32 (mapping is injective per doc): after any sequence of upload passes
\* no two different local paths are mapped to the same remote page id of the
\* same doc; two files of the same basename in different folders never both
\* adopt the same remote page by name.
MappingInjectivePerDoc ==
    \A d \in Docs :
       \A k1, k2 \in KeysOfDoc(pageMapping, d) :
          k1 # k2 => pageMapping[k1] # pageMapping[k2]


\* a step of syncFileToClickupPage: from its call, or from the answer to its
\* PUT or POST, to its next await or its return
UploadStep ==
    /\ pc \in {"file", "autoFlat", "update", "create"}
    /\ pc' \in {"update", "create", "returned"}
    /\ events' = events

\* the key d:::f.path of the upload that takes the step
UploadKey ==
    IF pc = "file"
    THEN mappingKey(CurrentTarget.docId, loc.files[loc.fi].path)
    ELSE mappingKey(loc.target.docId, loc.file.path)

\* C33 (upload touches only its own key): an upload of file f to doc d
\* changes at most the pageMapping entry with key d:::f.path; every other
\* entry and every local file is unchanged, whatever the remote calls answer.
UploadTouchesOwnKey ==
    [][UploadStep =>
          /\ \A k \in (DOMAIN pageMapping \cup DOMAIN pageMapping') \ {UploadKey} :
                /\ k \in DOMAIN pageMapping
                /\ k \in DOMAIN pageMapping'
                /\ pageMapping'[k] = pageMapping[k]
          /\ vault' = vault]_vars

\* an upload has removed its own entry after a rejected PUT while the entry
\* of another file is in the mapping
UploadTouchesOwnKeyWitness ==
    /\ pc = "create"
    /\ loc.putStatus \notin {-1, 200, 204}
    /\ loc.mappingKey \notin DOMAIN pageMapping
    /\ DOMAIN pageMapping # {}


\* C34 (transport exception keeps the mapping): when the update call raises
\* a transport exception (no HTTP status) the upload returns false, no create
\* call is issued and the pageMapping entry of the file is the one the update
\* call was made with; only an HTTP status other than 200/204 removes the
\* entry.
TransportExceptionKeepsMapping ==
    [][/\ UpdateAnsweredWith({0}) =>
            /\ pc' = "returned"
            /\ ~loc'.success
            /\ loc'.posts = 0
            /\ requests' = requests
            /\ LastRequest.method = "PUT"
            /\ Lookup(pageMapping', loc.mappingKey) = LastRequest.pageId
       /\ UpdateAnsweredWith({404, 429, 500}) =>
            /\ loc.mappingKey \notin DOMAIN pageMapping'
            /\ pc' = "create"
       /\ (UploadStep /\ UploadKey \in DOMAIN pageMapping
                      /\ UploadKey \notin DOMAIN pageMapping') =>
            UpdateAnsweredWith({404, 429, 500})]_vars

\* the PUT for a page found by name has thrown: the upload has returned
\* false with the discovered entry in place
TransportExceptionKeepsMappingWitness ==
    /\ pc = "returned"
    /\ loc.putStatus = 0
    /\ loc.via = "name"
    /\ ~loc.success
    /\ loc.posts = 0
    /\ Lookup(pageMapping, loc.mappingKey) = loc.targetPageId
    /\ Truthy(loc.targetPageId)


(***************************************************************************)
(* Runs that start with a mapping entry whose page is gone from the doc    *)
(***************************************************************************)
\* a page id that was mapped by an earlier session; the page has since been
\* deleted in ClickUp
GonePageId == <<"p", "8">>

\* data.json as onload reads it: a.md is mapped in doc d to the deleted page
StaleMapping == MapSet(EmptyMap, mappingKey(DocD, FileA.path), GonePageId)

InitStale ==
    /\ settings \in SettingsChoices
    /\ pageMapping = StaleMapping
    /\ saved = StaleMapping
    /\ vault = InitVault
    /\ remote = InitRemote
    /\ nextId = 1
    /\ pc = "idle"
    /\ loc = LocInit
    /\ requests = <<>>
    /\ cleanPass = <<>>
    /\ faults = 0
    /\ events = 0

SpecStale == InitStale /\ [][NextConc]_vars


(***************************************************************************)
(* Overlapping sync-on-save handlers and downloads                         *)
(***************************************************************************)
\* the number of requests of this method among reqs
CountMethod(reqs, method) ==
    Cardinality({i \in 1..Len(reqs) : reqs[i].method = method})

\* a second handleAutoSync for the same file runs while the first is
\* suspended; neither found a mapping entry or a page of the file's name
\* (neither has sent a PUT)
SecondHandlerForSameFile ==
    /\ loc.op = "auto"
    /\ loc.other # <<>>
    /\ loc.other[1].loc.op = "auto"
    /\ loc.other[1].loc.file.path = loc.file.path
    /\ CountMethod(requests, "PUT") = 0
    /\ CountMethod(loc.other[1].requests, "PUT") = 0

\* C35 (no double create on rapid saves): when two modify events for the
\* same file, which has no mapping entry and no remote page of its name,
\* arrive so that the second handleAutoSync starts while the first is
\* suspended on a remote call, at most one create call is issued for the file.
NoDoubleCreate ==
    SecondHandlerForSameFile =>
       CountMethod(requests, "POST") + CountMethod(loc.other[1].requests, "POST") <= 1


\* Downloads with sync on save: the settings of the download with syncOnSave
\* set or not
InitDownSave ==
    /\ \E syncOnSave \in BOOLEAN :
          settings = [configured |-> TRUE, syncOnSave |-> syncOnSave,
                      syncTargets |-> <<SyncTarget(DocD, DownFolder, NULL)>>]
    /\ pageMapping = EmptyMap
    /\ saved = EmptyMap
    /\ vault \in DownVaults
    /\ \E n \in 0..MaxDownPages :
         \E names \in [1..n -> DownNames], shared \in BOOLEAN,
            parents \in {p \in [1..n -> 0..n] : \A i \in 1..n : p[i] < i} :
            remote = [d \in Docs |-> IF d = DocD
                                     THEN DownPages(n, names, parents, shared) ELSE <<>>]
    /\ nextId = 1
    /\ pc = "idle"
    /\ loc = DownLocInit
    /\ requests = <<>>
    /\ cleanPass = <<>>
    /\ faults = 0
    /\ events = 0

NextDownSave ==
    \/ NextDown
    \/ \E ok \in BOOLEAN : AutoFetchTree(ok)
    \/ \E ok, readOk \in BOOLEAN : AutoFetchFlat(ok, readOk)
    \/ pc = "update" /\ \E a \in PutAnswers(TRUE, loc.targetPageId)
                                 \cup PutAnswers(FALSE, loc.targetPageId) : UpdateResponds(a)
    \/ \E a \in PostAnswers : CreateResponds(a)
    \/ AutoAfterUpload

SpecDownSave == InitDownSave /\ [][NextDownSave]_vars

\* a download pass is running, or suspended below a handler it has started
DownloadRunning ==
    \/ loc.op = "down" /\ pc # "idle"
    \/ loc.op = "auto" /\ loc.other # <<>> /\ loc.other[1].loc.op = "down"

\* C36 (download does not write to the remote doc): a download pass causes
\* no create and no update call to the remote API, also when syncOnSave is
\* enabled and the pass overwrites existing local files with vault.modify.
DownloadSendsNoWrite ==
    DownloadRunning => requests = <<>>

\* the same when syncOnSave is off
DownloadSendsNoWriteWithoutSyncOnSave ==
    (DownloadRunning /\ ~settings.syncOnSave) => requests = <<>>


(***************************************************************************)
(* Recovery and target choice                                              *)
(***************************************************************************)
\* the ids of the pages the remote service has created for the plugin
CreatedIds == {NewPageId(n) : n \in 1..(nextId - 1)}

\* The state an interruption between the accepted create and saveSettings
\* leaves: pages of the fetched list, created by the plugin and named as the
\* file, to which no mapping entry refers
UnsavedCreates(file, pages) ==
    {pages[i].id : i \in {i \in 1..Len(pages) :
                            /\ pages[i].name = file.basename
                            /\ pages[i].id \in CreatedIds
                            /\ \A k \in DOMAIN pageMapping : pageMapping[k] # pages[i].id}}

\* the pass uploads a file that has no mapping entry while the fetched list
\* holds the page of its unsaved create
RecoveryUpload ==
    /\ pc = "file"
    /\ pc' \in {"update", "create", "returned"}
    /\ Lookup(pageMapping, UploadKey) = NULL
    /\ UnsavedCreates(loc.files[loc.fi], loc.flat.pages) # {}

\* the PUT to the page found in this way is answered
RecoveryUpdateAnswered ==
    /\ UpdateAnsweredWith({0, 200, 204, 404, 429, 500})
    /\ loc.op = "pass"
    /\ loc.via = "name"
    /\ loc.targetPageId \in CreatedIds

\* C37 (recovery after an unsaved create): if a run is interrupted after the
\* remote create of a file's page succeeded and before the new entry was
\* saved, the next upload pass for the file finds the page by name in the
\* fetched list and updates it; no second page is created for the file.
RecoveryAfterUnsavedCreate ==
    [][/\ (RecoveryUpload /\ pc' # "returned") =>
            /\ pc' = "update"
            /\ loc'.via = "name"
            /\ loc'.targetPageId \in UnsavedCreates(loc.files[loc.fi], loc.flat.pages)
       /\ RecoveryUpdateAnswered =>
            /\ pc' = "returned"
            /\ loc'.posts = 0
            /\ nextId' = nextId]_vars

\* the same when the page of the unsaved create is the first of its name in
\* the fetched list and the PUT is not refused with an HTTP status
RecoveryWhenUpdateAccepted ==
    [][/\ (/\ RecoveryUpload /\ pc' # "returned"
           /\ FindByName(loc.flat.pages, loc.files[loc.fi].basename)[1].id
                 \in UnsavedCreates(loc.files[loc.fi], loc.flat.pages)) =>
            /\ pc' = "update"
            /\ loc'.via = "name"
            /\ loc'.targetPageId \in UnsavedCreates(loc.files[loc.fi], loc.flat.pages)
       /\ (RecoveryUpdateAnswered /\ loc'.putStatus \in {0, 200, 204}) =>
            /\ pc' = "returned"
            /\ loc'.posts = 0
            /\ nextId' = nextId]_vars

\* a pass after a crash has found the page of the unsaved create by name and
\* updated it
RecoveryWhenUpdateAcceptedWitness ==
    /\ pc = "returned"
    /\ loc.op = "pass"
    /\ events >= 1
    /\ loc.via = "name"
    /\ loc.targetPageId \in CreatedIds
    /\ loc.putStatus = 200
    /\ loc.success
    /\ nextId = 2


\* Runs from every configuration of the model: several targets for one
\* file, and a target without doc id in front
InitChoice ==
    /\ settings \in SettingsChoices \cup SaveSettings
    /\ pageMapping = EmptyMap
    /\ saved = EmptyMap
    /\ vault = InitVault
    /\ remote = InitRemote
    /\ nextId = 1
    /\ pc = "idle"
    /\ loc = LocInit
    /\ requests = <<>>
    /\ cleanPass = <<>>
    /\ faults = 0
    /\ events = 0

SpecChoice == InitChoice /\ [][Next]_vars

\* the targets, with or without doc id, whose folder the path lies under
MatchingTargets(path) ==
    {i \in 1..Len(settings.syncTargets) :
        UnderFolder(path, settings.syncTargets[i].folderPath)}

\* handleAutoSync is started for the first matching target, whether it has a
\* doc id or not, keeps to that doc and folder (the parent page may be
\* inferred), calls syncFileToClickupPage at most once and sends requests
\* for that target and the file only
HandlerUsesFirstTarget ==
    /\ [][\A path \in Paths :
             (ModifyStep(path) /\ settings.syncOnSave /\ MatchingTargets(path) # {})
                => /\ pc' = "autoTree"
                   /\ loc'.file.path = path
                   /\ loc'.target = settings.syncTargets[Min(MatchingTargets(path))]]_vars
    /\ [][loc.op = "auto" /\ loc'.op = "auto" /\ loc'.other = loc.other =>
             /\ loc'.target.docId = loc.target.docId
             /\ loc'.target.folderPath = loc.target.folderPath
             /\ loc'.file.path = loc.file.path
             /\ Len(loc'.uploads) <= 1
             /\ \A i \in 1..Len(requests') :
                   /\ requests'[i].docId = loc.target.docId
                   /\ requests'[i].key = mappingKey(loc.target.docId, loc.file.path)]_vars

\* the step that ends a pass: every target has been gone through
PassEnds == PassEnding /\ pc' = "idle"

=============================================================================
